---- MODULE Spec2Model ----
(***************************************************************************)
(* A model of claude-code-timelog's report engine (scripts/report.mjs):    *)
(* the log of hook events, buildSlices (group by session, sort, walk the   *)
(* consecutive pairs, trailing prompt), filterSlices, the rollups, the     *)
(* reader parseEntries and the command's file selection and exit status;  *)
(* and of the backfill script's merge into the day files.                   *)
(*                                                                         *)
(* Representation.                                                         *)
(*  - An event's ts is the instant its ISO string denotes, in milliseconds *)
(*    since the epoch, or NaN when `new Date(ts)` is an Invalid Date.       *)
(*  - A slice's seconds is held in thousandths of a second, the unit in    *)
(*    which gap / 1000 is exact; floating-point rounding is not modelled.  *)
(*  - A string that is searched (project, ticket) is a sequence of         *)
(*    one-character strings; an optional string is a record [some, chars]. *)
(***************************************************************************)
EXTENDS Integers, Sequences, FiniteSets, TLC

VARIABLES
    entries,   \* the parsed log entries, in input order
    breakMs,   \* config.breakThreshold * 1000
    status,    \* "log" | "sliced" | "threw" | "filtered"
    slices,    \* what buildSlices returned
    opts,      \* the options of the last filterSlices call
    filtered,  \* what filterSlices returned
    rollup,    \* what the last rollup (aggregate, timesheet, day view) returned
    files,     \* the log files handed to parseEntries
    cli,       \* a run of the report command: range, selected files, exit
    timelog    \* the timelog directory and the transcripts backfill reads

vars == <<entries, breakMs, status, slices, opts, filtered,
          rollup, files, cli, timelog>>

\* The parts of the state a specification does not exercise.
Idle == <<>>

----------------------------------------------------------------------------
(* Bounds of the model. *)

MaxEntries == 3     \* log entries per run
MaxShuffled == 4    \* log entries per run, when only their order varies
MaxTs == 3          \* timestamps range over 0..MaxTs milliseconds
BreakMs == 2        \* the break threshold, in milliseconds
MaxSlices == 2      \* slices handed to filterSlices

----------------------------------------------------------------------------
(* Values. *)

\* new Date(x).getTime() of an unparseable or missing timestamp.
NaN == -1

\* ms in a UTC day: toISOString().slice(0, 10) changes every MsPerDay.
MsPerDay == 86400000

None == [some |-> FALSE, chars |-> <<>>]
Some(cs) == [some |-> TRUE, chars |-> cs]

\* "my-app", "Other" and a ticket "BAN-1", shortened to keep the search small.
MyApp == Some(<<"m", "y">>)
OtherApp == Some(<<"O", "t">>)
Ban1 == Some(<<"B", "1">>)
Opus == Some(<<"o">>)

NoSession == ""
Prompt == "UserPromptSubmit"

----------------------------------------------------------------------------
(* Array.prototype.sort with the comparator                                *)
(*     (a, b) => new Date(a.ts) - new Date(b.ts)                            *)
(* as V8 runs it on an array shorter than 64 elements: the initial run is  *)
(* counted (a strictly descending run is reversed) and the rest is added   *)
(* by binary insertion.  A comparator result of NaN counts as 0.           *)

\* comparefn(a, b) < 0
Less(a, b) == a.ts # NaN /\ b.ts # NaN /\ a.ts < b.ts

RECURSIVE RunEnd(_, _, _)
RunEnd(a, desc, i) ==
    IF i > Len(a) THEN Len(a)
    ELSE IF desc = Less(a[i], a[i - 1]) THEN RunEnd(a, desc, i + 1)
    ELSE i - 1

Reverse(s) == [i \in 1..Len(s) |-> s[Len(s) + 1 - i]]

RECURSIVE BinarySearch(_, _, _, _)
BinarySearch(a, pivot, left, right) ==
    IF left >= right THEN left
    ELSE LET mid == left + ((right - left) \div 2)
         IN IF Less(pivot, a[mid])
            THEN BinarySearch(a, pivot, left, mid)
            ELSE BinarySearch(a, pivot, mid + 1, right)

InsertAt(a, pos, x) ==
    SubSeq(a, 1, pos - 1) \o <<x>> \o SubSeq(a, pos, Len(a))

RECURSIVE BinaryInsertionSort(_, _)
BinaryInsertionSort(a, start) ==
    IF start > Len(a) THEN a
    ELSE LET pos == BinarySearch(a, a[start], 1, start)
             b == InsertAt(SubSeq(a, 1, start - 1), pos, a[start])
                    \o SubSeq(a, start + 1, Len(a))
         IN BinaryInsertionSort(b, start + 1)

\* Mutant: the session's events are walked in input order.
SortEvents_Unsorted(events) == events

SortEvents(events) ==
    IF Len(events) < 2 THEN events
    ELSE LET desc == Less(events[2], events[1])
             run == RunEnd(events, desc, 3)
             made == IF desc
                     THEN Reverse(SubSeq(events, 1, run))
                            \o SubSeq(events, run + 1, Len(events))
                     ELSE events
         IN BinaryInsertionSort(made, run + 1)

----------------------------------------------------------------------------
(* buildSlices.  Every step returns [threw, out]: dateKey throws a         *)
(* RangeError ("Invalid time value") on an Invalid Date, and the exception *)
(* leaves buildSlices without a result.                                    *)

\* date.toISOString().slice(0, 10), as the number of the UTC day.
dateKey(t) == t \div MsPerDay

Ok(out) == [threw |-> FALSE, out |-> out]
Threw == [threw |-> TRUE, out |-> <<>>]

Slice(sid, anchor, secs, isPrompt) ==
    [session |-> sid,
     project |-> anchor.project,
     ticket |-> anchor.ticket,
     model |-> anchor.model,
     date |-> dateKey(anchor.ts),
     seconds |-> secs,
     isPrompt |-> isPrompt]

\* Mutant: a gap equal to the threshold still counts as active.
PairStep_InclusiveBreak(sid, curr, next, brk) ==
    LET gap == next.ts - curr.ts
    IN  IF gap > 0 /\ gap <= brk
        THEN Ok(<<Slice(sid, curr, gap, curr.event = Prompt)>>)
        ELSE IF curr.event = Prompt
        THEN Ok(<<Slice(sid, curr, 0, TRUE)>>)
        ELSE Ok(<<>>)

\* Mutant: a prompt that is not followed by an active gap is given a whole
\* threshold of time.
PairStep_CapAtBreak(sid, curr, next, brk) ==
    LET gap == next.ts - curr.ts
    IN  IF gap > 0 /\ gap < brk
        THEN Ok(<<Slice(sid, curr, gap, curr.event = Prompt)>>)
        ELSE IF curr.event = Prompt
        THEN Ok(<<Slice(sid, curr, brk, TRUE)>>)
        ELSE Ok(<<>>)

\* Mutant: the active slice takes its attribution from the later event.
PairStep_NextAttribution(sid, curr, next, brk) ==
    LET gap == next.ts - curr.ts
    IN  IF gap > 0 /\ gap < brk
        THEN Ok(<<Slice(sid, next, gap, next.event = Prompt)>>)
        ELSE IF curr.event = Prompt
        THEN Ok(<<Slice(sid, curr, 0, TRUE)>>)
        ELSE Ok(<<>>)

\* The body of the loop over consecutive pairs.  A gap with a NaN operand
\* is NaN, and every comparison with NaN is false.
PairStep(sid, curr, next, brk) ==
    LET t0 == curr.ts
        t1 == next.ts
        isNum == t0 # NaN /\ t1 # NaN
        gap == t1 - t0
    IN  IF isNum /\ gap > 0 /\ gap < brk
        THEN Ok(<<Slice(sid, curr, gap, curr.event = Prompt)>>)
        ELSE IF curr.event = Prompt
        THEN IF t0 = NaN THEN Threw ELSE Ok(<<Slice(sid, curr, 0, TRUE)>>)
        ELSE Ok(<<>>)

RECURSIVE WalkPairs(_, _, _, _)
WalkPairs(sid, events, brk, i) ==
    IF i > Len(events) - 1 THEN Ok(<<>>)
    ELSE LET r == PairStep(sid, events[i], events[i + 1], brk)
         IN  IF r.threw THEN Threw
             ELSE LET rest == WalkPairs(sid, events, brk, i + 1)
                  IN  IF rest.threw THEN Threw ELSE Ok(r.out \o rest.out)

\* Mutant: step 4 is left out.
TrailingSlice_Forgotten(sid, events) == Ok(<<>>)

\* Step 4: the last event, if it is a prompt.
TrailingSlice(sid, events) ==
    IF Len(events) = 0 THEN Ok(<<>>)
    ELSE LET last == events[Len(events)]
         IN  IF last.event = Prompt
             THEN IF last.ts = NaN THEN Threw
                  ELSE Ok(<<Slice(sid, last, 0, TRUE)>>)
             ELSE Ok(<<>>)

\* The keys of bySession, in insertion order.
RECURSIVE SessionOrder(_)
SessionOrder(es) ==
    IF es = <<>> THEN <<>>
    ELSE LET init == SessionOrder(SubSeq(es, 1, Len(es) - 1))
             s == es[Len(es)].session
         IN  IF s = NoSession \/ \E i \in 1..Len(init) : init[i] = s
             THEN init
             ELSE Append(init, s)

\* Mutant: every session's list holds the entries of all sessions.
bySession_AllSessions(es, sid) ==
    SelectSeq(es, LAMBDA e : e.session # NoSession)

\* Mutant: entries without a session id are kept in every session's list.
bySession_KeepsSessionless(es, sid) ==
    SelectSeq(es, LAMBDA e : e.session = sid \/ e.session = NoSession)

\* bySession.get(sid): the entries of the session, in input order.
bySession(es, sid) ==
    IF sid = NoSession THEN <<>>
    ELSE SelectSeq(es, LAMBDA e : e.session = sid)

\* One iteration of `for (const [sid, events] of bySession)`.
SessionSlices(sid, events, brk) ==
    LET sorted == SortEvents(events)
        walked == WalkPairs(sid, sorted, brk, 1)
        trail == TrailingSlice(sid, sorted)
    IN  IF walked.threw \/ trail.threw THEN Threw
        ELSE Ok(walked.out \o trail.out)

RECURSIVE AllSessions(_, _, _, _)
AllSessions(es, order, brk, k) ==
    IF k > Len(order) THEN Ok(<<>>)
    ELSE LET r == SessionSlices(order[k], bySession(es, order[k]), brk)
         IN  IF r.threw THEN Threw
             ELSE LET rest == AllSessions(es, order, brk, k + 1)
                  IN  IF rest.threw THEN Threw ELSE Ok(r.out \o rest.out)

buildSlices(es, brk) == AllSessions(es, SessionOrder(es), brk, 1)

----------------------------------------------------------------------------
(* The log and the report run. *)

Event(s, t, k, p, tk, m) ==
    [session |-> s, ts |-> t, event |-> k,
     project |-> p, ticket |-> tk, model |-> m]

Kinds == {"SessionStart", Prompt, "SessionEnd"}

\* What the hook attaches at capture time: project and ticket of the working
\* directory, and the model on SessionStart only.
Contexts ==
    {[project |-> MyApp, ticket |-> None],
     [project |-> OtherApp, ticket |-> Ban1]}

ModelOf(k) == IF k = "SessionStart" THEN Opus ELSE None

\* One session, every kind of event, any order of timestamps, a project or
\* ticket that may change from one event to the next.
GapEvents ==
    {Event("sA", t, k, c.project, c.ticket, ModelOf(k)) :
        t \in 0..MaxTs, k \in Kinds, c \in Contexts}

NoOpts == [project |-> None, ticket |-> None]

Init ==
    /\ entries = <<>>
    /\ breakMs = BreakMs
    /\ status = "log"
    /\ slices = <<>>
    /\ opts = NoOpts
    /\ filtered = <<>>
    /\ rollup = Idle /\ files = Idle /\ cli = Idle /\ timelog = Idle

\* An entry reaches the report's input (parseEntries pushes a parsed line).
ReadEntry(e, max) ==
    /\ status = "log"
    /\ Len(entries) < max
    /\ entries' = Append(entries, e)
    /\ UNCHANGED <<breakMs, status, slices, opts, filtered,
                 rollup, files, cli, timelog>>

\* const slices = buildSlices(entries, breakMs)
RunBuildSlices ==
    /\ status = "log"
    /\ LET r == buildSlices(entries, breakMs)
       IN  /\ status' = IF r.threw THEN "threw" ELSE "sliced"
           /\ slices' = r.out
    /\ UNCHANGED <<entries, breakMs, opts, filtered,
                 rollup, files, cli, timelog>>

ReadGapEvent == \E e \in GapEvents : ReadEntry(e, MaxEntries)

Next == ReadGapEvent \/ RunBuildSlices

Spec == Init /\ [][Next]_vars

\* A longer log of one session and one project, in any order.
ShuffledEvents ==
    {Event("sA", t, k, MyApp, None, ModelOf(k)) :
        t \in 0..MaxTs, k \in {"SessionStart", Prompt}}

ReadShuffledEvent == \E e \in ShuffledEvents : ReadEntry(e, MaxShuffled)

NextOrder == ReadShuffledEvent \/ RunBuildSlices

SpecOrder == Init /\ [][NextOrder]_vars

----------------------------------------------------------------------------
(* Concurrent sessions, entries without a session id, and entries whose    *)
(* timestamp does not parse. *)

SessionContext(s) ==
    IF s = "sB" THEN [project |-> OtherApp, ticket |-> Ban1]
    ELSE [project |-> MyApp, ticket |-> None]

\* Two sessions whose timestamps interleave or coincide, and entries that
\* carry no session id.
SessionEvents ==
    {Event(s, t, k, SessionContext(s).project, SessionContext(s).ticket,
           ModelOf(k)) :
        s \in {NoSession, "sA", "sB"}, t \in 0..BreakMs,
        k \in {"SessionStart", Prompt}}

ReadSessionEvent == \E e \in SessionEvents : ReadEntry(e, MaxEntries)

NextSessions == ReadSessionEvent \/ RunBuildSlices

SpecSessions == Init /\ [][NextSessions]_vars

\* Entries whose ts is missing or is not a date.
BadTsEvents ==
    {Event(s, t, k, SessionContext(s).project, SessionContext(s).ticket,
           ModelOf(k)) :
        s \in {"sA", "sB"}, t \in {NaN} \cup 0..BreakMs,
        k \in {"SessionStart", Prompt}}

ReadBadTsEvent == \E e \in BadTsEvents : ReadEntry(e, MaxEntries)

NextBadTs == ReadBadTsEvent \/ RunBuildSlices

SpecBadTs == Init /\ [][NextBadTs]_vars

----------------------------------------------------------------------------
(* filterSlices. *)

\* The letters that occur in the model's strings, as <<lower, upper>>.
CasePairs ==
    {<<"a", "A">>, <<"b", "B">>, <<"m", "M">>, <<"o", "O">>,
     <<"t", "T">>, <<"y", "Y">>}

\* String.prototype.toLowerCase / toUpperCase, character by character.
ToLowerChar(c) ==
    IF \E q \in CasePairs : q[2] = c
    THEN (CHOOSE q \in CasePairs : q[2] = c)[1]
    ELSE c

ToUpperChar(c) ==
    IF \E q \in CasePairs : q[1] = c
    THEN (CHOOSE q \in CasePairs : q[1] = c)[2]
    ELSE c

toLowerCase(cs) == [i \in 1..Len(cs) |-> ToLowerChar(cs[i])]

toUpperCase(cs) == [i \in 1..Len(cs) |-> ToUpperChar(cs[i])]

\* String.prototype.includes
includes(hay, needle) ==
    \E k \in 0..(Len(hay) - Len(needle)) :
        SubSeq(hay, k + 1, k + Len(needle)) = needle

\* opts.project, opts.ticket as a condition: set and not ''.
Truthy(o) == o.some /\ o.chars # <<>>

\* (s.project || '')
OrEmpty(o) == IF Truthy(o) THEN o.chars ELSE <<>>

\* Mutant: the comparison is case-sensitive.
filterSlices_CaseSensitive(ss, o) ==
    LET byProject ==
            IF Truthy(o.project)
            THEN SelectSeq(ss, LAMBDA sl :
                    includes(OrEmpty(sl.project), o.project.chars))
            ELSE ss
    IN  IF Truthy(o.ticket)
        THEN SelectSeq(byProject, LAMBDA sl :
                includes(OrEmpty(sl.ticket), o.ticket.chars))
        ELSE byProject

filterSlices(ss, o) ==
    LET byProject ==
            IF Truthy(o.project)
            THEN SelectSeq(ss, LAMBDA sl :
                    includes(toLowerCase(OrEmpty(sl.project)),
                             toLowerCase(o.project.chars)))
            ELSE ss
    IN  IF Truthy(o.ticket)
        THEN SelectSeq(byProject, LAMBDA sl :
                includes(toUpperCase(OrEmpty(sl.ticket)),
                         toUpperCase(o.ticket.chars)))
        ELSE byProject

Unknown == Some(<<"u", "n", "k", "n", "o", "w", "n">>)

\* Slices as buildSlices returns them, with projects and tickets that
\* contain one another in different cases, or are missing.
FilterInputs ==
    {[session |-> "sA", project |-> p, ticket |-> t, model |-> None,
      date |-> 0, seconds |-> 0, isPrompt |-> TRUE] :
        p \in {None, MyApp, OtherApp, Some(<<"a", "M", "Y">>)},
        t \in {None, Ban1, Some(<<"a", "b">>)}}

FilterOpts ==
    {[project |-> p, ticket |-> t] :
        p \in {None, Some(<<>>), Some(<<"M", "y">>), Some(<<"t">>), Unknown},
        t \in {None, Some(<<"b">>), Some(<<"B", "1">>)}}

InitFilter ==
    /\ entries = <<>>
    /\ breakMs = BreakMs
    /\ status = "sliced"
    /\ slices \in UNION {[1..n -> FilterInputs] : n \in 0..MaxSlices}
    /\ opts \in FilterOpts
    /\ filtered = <<>>
    /\ rollup = Idle /\ files = Idle /\ cli = Idle /\ timelog = Idle

\* slices = filterSlices(slices, { project: fpArg, ticket: ftArg })
RunFilterSlices ==
    /\ status = "sliced"
    /\ filtered' = filterSlices(slices, opts)
    /\ status' = "filtered"
    /\ UNCHANGED <<entries, breakMs, slices, opts,
                 rollup, files, cli, timelog>>

NextFilter == RunFilterSlices

SpecFilter == InitFilter /\ [][NextFilter]_vars

----------------------------------------------------------------------------
(* What the claims are measured against: the entries of a session in       *)
(* stable timestamp order, read off the input without the model's sort.    *)

RefSessions == {entries[i].session : i \in 1..Len(entries)} \ {NoSession}

RefEvents(sid) == SelectSeq(entries, LAMBDA e : e.session = sid)

RECURSIVE RefSortFrom(_, _)
RefSortFrom(es, t) ==
    IF t > MaxTs THEN <<>>
    ELSE SelectSeq(es, LAMBDA e : e.ts = t) \o RefSortFrom(es, t + 1)

RefSorted(sid) == RefSortFrom(RefEvents(sid), 0)

\* The slices returned for a session, in output order.
Out(sid) == SelectSeq(slices, LAMBDA s : s.session = sid)

RefGap(ev, i) == ev[i + 1].ts - ev[i].ts

RefIsPrompt(e) == e.event = Prompt

\* Pair i yields a slice: an active gap, or a prompt before a break.
RefEmits(ev, i) ==
    (RefGap(ev, i) > 0 /\ RefGap(ev, i) < breakMs) \/ RefIsPrompt(ev[i])

\* The number of slices of the pairs before pair i.
RECURSIVE RefPos(_, _)
RefPos(ev, i) ==
    IF i <= 1 THEN 0
    ELSE RefPos(ev, i - 1) + (IF RefEmits(ev, i - 1) THEN 1 ELSE 0)

RefTrailing(ev) == Len(ev) > 0 /\ RefIsPrompt(ev[Len(ev)])

\* The output of a session has one slot per emitting pair and one for a
\* trailing prompt.
RefLength(ev) == RefPos(ev, Len(ev)) + (IF RefTrailing(ev) THEN 1 ELSE 0)

RefAnchored(s, sid, e) ==
    /\ s.session = sid
    /\ s.project = e.project
    /\ s.ticket = e.ticket
    /\ s.model = e.model
    /\ s.isPrompt = RefIsPrompt(e)

RECURSIVE SumSeconds(_)
SumSeconds(ss) ==
    IF ss = <<>> THEN 0 ELSE ss[1].seconds + SumSeconds(Tail(ss))

----------------------------------------------------------------------------
(* C1-C4, C6, C7: the walk over one session (specification Spec; C3 under  *)
(* SpecOrder, where the log is long enough for its order to matter).       *)

\* C1: a pair whose gap equals breakMs yields no slice with seconds > 0 (a
\* 0-second prompt slice if curr is a prompt, nothing otherwise); a pair
\* whose gap is breakMs - 1 > 0 yields one slice anchored at curr whose
\* seconds is the whole gap.
C1_GapBoundary ==
    status = "sliced" =>
        \A sid \in RefSessions :
            LET ev == RefSorted(sid)
                out == Out(sid)
            IN  /\ Len(out) = RefLength(ev)
                /\ \A k \in 1..Len(out) : out[k].seconds < breakMs
                /\ \A i \in 1..(Len(ev) - 1) :
                      LET p == RefPos(ev, i) + 1
                      IN  /\ (RefGap(ev, i) = breakMs /\ RefIsPrompt(ev[i]))
                              => /\ out[p].seconds = 0
                                 /\ out[p].isPrompt
                          /\ (RefGap(ev, i) = breakMs - 1 /\ RefGap(ev, i) > 0)
                              => /\ out[p].seconds = RefGap(ev, i)
                                 /\ RefAnchored(out[p], sid, ev[i])

C1_Witness ==
    /\ status = "sliced"
    /\ \E sid \in RefSessions :
          LET ev == RefSorted(sid)
          IN  /\ \E i \in 1..(Len(ev) - 1) :
                    RefGap(ev, i) = breakMs /\ RefIsPrompt(ev[i])
              /\ \E i \in 1..(Len(ev) - 1) :
                    RefGap(ev, i) = breakMs - 1 /\ RefGap(ev, i) > 0

\* The sub-threshold gaps of a session, added up.
RECURSIVE RefActiveGaps(_, _)
RefActiveGaps(ev, i) ==
    IF i > Len(ev) - 1 THEN 0
    ELSE (IF RefGap(ev, i) < breakMs THEN RefGap(ev, i) ELSE 0)
            + RefActiveGaps(ev, i + 1)

\* C2: conservation.  The seconds of a session's slices add up to the
\* gaps between its consecutive time-sorted events that are below breakMs.
C2_Conservation ==
    status = "sliced" =>
        \A sid \in RefSessions :
            SumSeconds(Out(sid)) = RefActiveGaps(RefSorted(sid), 1)

C2_Witness ==
    /\ status = "sliced"
    /\ \E sid \in RefSessions :
          LET ev == RefSorted(sid)
          IN  /\ ev # RefEvents(sid)
              /\ \E i \in 1..(Len(ev) - 1) : RefGap(ev, i) >= breakMs
              /\ \E i \in 1..(Len(ev) - 1) :
                    RefGap(ev, i) > 0 /\ RefGap(ev, i) < breakMs
              /\ SumSeconds(Out(sid)) > 0

RefTimes(sid) ==
    {RefEvents(sid)[i].ts : i \in 1..Len(RefEvents(sid))}

RefSpan(sid) ==
    LET ts == RefTimes(sid)
    IN  (CHOOSE hi \in ts : \A t \in ts : t <= hi)
          - (CHOOSE lo \in ts : \A t \in ts : lo <= t)

\* C3: no slice has negative seconds, and the seconds of a session's slices
\* never exceed the span between its earliest and latest event, whatever
\* the order of the input.
C3_WithinSpan ==
    status = "sliced" =>
        /\ \A k \in 1..Len(slices) : slices[k].seconds >= 0
        /\ \A sid \in RefSessions : SumSeconds(Out(sid)) <= RefSpan(sid)

\* The input starts with the latest event and ends with the earliest; the
\* session has active time and a break.
C3_Witness ==
    /\ status = "sliced"
    /\ \E sid \in RefSessions :
          /\ Len(RefEvents(sid)) = MaxShuffled
          /\ \A i \in 1..Len(RefEvents(sid)) :
                /\ RefEvents(sid)[i].ts <= RefEvents(sid)[1].ts
                /\ RefEvents(sid)[Len(RefEvents(sid))].ts <= RefEvents(sid)[i].ts
          /\ SumSeconds(Out(sid)) > 0
          /\ SumSeconds(Out(sid)) < RefSpan(sid)

RefTrailingSlice(s, sid, e) ==
    /\ s.seconds = 0
    /\ s.isPrompt
    /\ s.session = sid
    /\ s.project = e.project
    /\ s.ticket = e.ticket
    /\ s.model = e.model

\* C4: a session whose last event is a prompt ends with a 0-second prompt
\* slice anchored at it, whatever the gap before it; a lone prompt yields
\* exactly that slice, a lone event of another kind yields none.
C4_TrailingPrompt ==
    status = "sliced" =>
        \A sid \in RefSessions :
            LET ev == RefSorted(sid)
                out == Out(sid)
            IN  /\ RefIsPrompt(ev[Len(ev)])
                    => /\ Len(out) >= 1
                       /\ RefTrailingSlice(out[Len(out)], sid, ev[Len(ev)])
                /\ Len(ev) = 1
                    => Len(out) = (IF RefIsPrompt(ev[1]) THEN 1 ELSE 0)

\* The last event is a prompt that follows a break, and its project differs
\* from that of the event before it.
C4_Witness ==
    /\ status = "sliced"
    /\ \E sid \in RefSessions :
          LET ev == RefSorted(sid)
              n == Len(ev)
          IN  /\ n >= 2
              /\ RefIsPrompt(ev[n])
              /\ RefGap(ev, n - 1) >= breakMs
              /\ ev[n].project # ev[n - 1].project
              /\ Len(Out(sid)) >= 2

\* C6: every slice carries the session, project, ticket and model of its
\* anchor (the earlier event of its pair, or the last event), and is a
\* prompt slice exactly when the anchor is a prompt.
C6_AnchorAttribution ==
    status = "sliced" =>
        \A sid \in RefSessions :
            LET ev == RefSorted(sid)
                out == Out(sid)
            IN  /\ Len(out) = RefLength(ev)
                /\ \A i \in 1..(Len(ev) - 1) :
                      RefEmits(ev, i)
                          => RefAnchored(out[RefPos(ev, i) + 1], sid, ev[i])
                /\ RefTrailing(ev)
                      => RefAnchored(out[Len(out)], sid, ev[Len(ev)])

\* Project, ticket and model all change across an active gap.
C6_Witness ==
    /\ status = "sliced"
    /\ \E sid \in RefSessions :
          LET ev == RefSorted(sid)
          IN  \E i \in 1..(Len(ev) - 1) :
                /\ RefGap(ev, i) > 0 /\ RefGap(ev, i) < breakMs
                /\ ev[i].project # ev[i + 1].project
                /\ ev[i].ticket # ev[i + 1].ticket
                /\ ev[i].model # ev[i + 1].model
                /\ RefIsPrompt(ev[i]) # RefIsPrompt(ev[i + 1])

\* C7: a pair of events with the same timestamp yields a 0-second slice
\* anchored at the earlier event, whatever the kind of that event.
C7_ZeroGapSlice ==
    status = "sliced" =>
        \A sid \in RefSessions :
            LET ev == RefSorted(sid)
                out == Out(sid)
            IN  \A i \in 1..(Len(ev) - 1) :
                    RefGap(ev, i) = 0
                        => \E k \in 1..Len(out) :
                              /\ out[k].seconds = 0
                              /\ RefAnchored(out[k], sid, ev[i])

----------------------------------------------------------------------------
(* C5, C9: grouping by session (specification SpecSessions). *)

\* C5: the slices returned for a session are those buildSlices returns for
\* the entries of that session alone, whatever the other sessions hold.
C5_SessionIndependence ==
    status = "sliced" =>
        \A sid \in RefSessions :
            Out(sid) = buildSlices(RefEvents(sid), breakMs).out

\* Another session has an event strictly between two events of this one and
\* an event at the same instant as one of them.
C5_Witness ==
    /\ status = "sliced"
    /\ \E sid \in RefSessions, other \in RefSessions :
          /\ sid # other
          /\ \E i, j, k \in 1..Len(entries) :
                /\ entries[i].session = sid
                /\ entries[j].session = other
                /\ entries[k].session = sid
                /\ entries[i].ts < entries[j].ts
                /\ entries[j].ts < entries[k].ts
                /\ j < i
          /\ Len(Out(sid)) >= 2

RefWithSession == SelectSeq(entries, LAMBDA e : e.session # NoSession)

RECURSIVE RefGroupSizes(_, _)
RefGroupSizes(order, k) ==
    IF k > Len(order) THEN 0
    ELSE Len(bySession(entries, order[k])) + RefGroupSizes(order, k + 1)

\* C9: entries without a session id yield no slice and change no slice, and
\* every entry with a session id is in the sequence of exactly one session.
C9_SessionlessDropped ==
    LET order == SessionOrder(entries)
    IN  /\ status = "sliced" =>
              /\ slices = buildSlices(RefWithSession, breakMs).out
              /\ \A k \in 1..Len(slices) : slices[k].session # NoSession
        /\ RefGroupSizes(order, 1) = Len(RefWithSession)
        /\ \A i \in 1..Len(entries) :
              entries[i].session # NoSession =>
                  \E k \in 1..Len(order) :
                      /\ order[k] = entries[i].session
                      /\ \E n \in 1..Len(bySession(entries, order[k])) :
                            bySession(entries, order[k])[n] = entries[i]
        /\ \A k \in 1..Len(order) :
              \A n \in 1..Len(bySession(entries, order[k])) :
                  bySession(entries, order[k])[n].session = order[k]

\* A prompt without a session id lies between two events of a session.
C9_Witness ==
    /\ status = "sliced"
    /\ Len(slices) >= 2
    /\ \E i, j, k \in 1..Len(entries) :
          /\ i < j /\ j < k
          /\ entries[i].session = "sA"
          /\ entries[j].session = NoSession
          /\ entries[j].event = Prompt
          /\ entries[k].session = "sA"
          /\ entries[i].ts < entries[j].ts
          /\ entries[j].ts < entries[k].ts

----------------------------------------------------------------------------
(* C8: timestamps that do not parse (specification SpecBadTs). *)

RefValidPair(ev, i) == ev[i].ts # NaN /\ ev[i + 1].ts # NaN

RECURSIVE RefValidPairSlices(_, _)
RefValidPairSlices(ev, i) ==
    IF i > Len(ev) - 1 THEN 0
    ELSE (IF RefValidPair(ev, i) /\ RefEmits(ev, i) THEN 1 ELSE 0)
            + RefValidPairSlices(ev, i + 1)

\* C8: buildSlices does not throw on an entry whose timestamp is missing or
\* unparseable; a pair with such an entry yields no slice, and the slices
\* of the other pairs and sessions are returned.
C8_BadTimestampSkipped ==
    /\ status # "threw"
    /\ status = "sliced" =>
          \A sid \in RefSessions :
              LET ev == SortEvents(RefEvents(sid))
                  last == ev[Len(ev)]
              IN  Len(Out(sid)) =
                      RefValidPairSlices(ev, 1)
                        + (IF last.ts # NaN /\ RefIsPrompt(last) THEN 1 ELSE 0)

----------------------------------------------------------------------------
(* C10: filterSlices (specification SpecFilter). *)

RefSameLetter(x, y) ==
    x = y \/ <<x, y>> \in CasePairs \/ <<y, x>> \in CasePairs

\* hay contains needle, case-insensitively.
RefContains(hay, needle) ==
    \E k \in 0..(Len(hay) - Len(needle)) :
        \A n \in 1..Len(needle) : RefSameLetter(hay[k + n], needle[n])

RefText(o) == IF o.some THEN o.chars ELSE <<>>

RefMatches(sl, o) ==
    /\ RefText(o.project) # <<>>
          => RefContains(RefText(sl.project), RefText(o.project))
    /\ RefText(o.ticket) # <<>>
          => RefContains(RefText(sl.ticket), RefText(o.ticket))

\* C10: filterSlices returns, in their original order, exactly the slices
\* whose project contains the project option and whose ticket contains the
\* ticket option, case-insensitively, a missing field counting as ''; an
\* absent or empty option does not constrain.
C10_FilterSlices ==
    status = "filtered" =>
        /\ filtered = SelectSeq(slices, LAMBDA sl : RefMatches(sl, opts))
        /\ (RefText(opts.project) # <<>>
              => \A k \in 1..Len(filtered) : filtered[k].project.some)
        /\ (RefText(opts.project) = <<>> /\ RefText(opts.ticket) = <<>>
              => filtered = slices)

\* Both options are set and differ in case from the fields they match; one
\* slice passes, one fails on the project and one has no project at all.
C10_Witness ==
    /\ status = "filtered"
    /\ opts.project.some /\ opts.project.chars # <<>>
    /\ opts.ticket.some /\ opts.ticket.chars # <<>>
    /\ Len(filtered) >= 1
    /\ Len(filtered) < Len(slices)
    /\ \E k \in 1..Len(filtered) :
          /\ ~includes(filtered[k].project.chars, opts.project.chars)
    /\ \E k \in 1..Len(slices) : ~slices[k].project.some

----------------------------------------------------------------------------
(* Rollups: aggregate, buildTimesheet, buildDayProjectTicket.  A Map is    *)
(* the sequence of its entries in insertion order; a group's session Set   *)
(* is a set.                                                                *)

MaxRollup == 2      \* slices handed to a rollup

\* The fallback labels of the views.
UnknownLabel == Some(<<"(", "u", "n", "k", "n", "o", "w", "n", ")">>)
UntrackedLabel ==
    Some(<<"(", "u", "n", "t", "r", "a", "c", "k", "e", "d", ")">>)
NoTicketLabel ==
    Some(<<"(", "n", "o", " ", "t", "i", "c", "k", "e", "t", ")">>)

\* a || fallback
OrElse(o, fallback) == IF Truthy(o) THEN o ELSE fallback

\* The key functions aggregate is called with: the command's four, and the
\* unit test's two (the bare project, and the constant null).
KeyFns ==
    {"project", "projectOrUnknown", "ticketOrNoTicket", "modelOrUnknown",
     "date", "null"}

keyFn(name, s) ==
    CASE name = "project" -> s.project
      [] name = "projectOrUnknown" -> OrElse(s.project, UnknownLabel)
      [] name = "ticketOrNoTicket" -> OrElse(s.ticket, NoTicketLabel)
      [] name = "modelOrUnknown" -> OrElse(s.model, UnknownLabel)
      [] name = "date" -> Some(<<s.date>>)
      [] OTHER -> None

\* groups.has(key)
Has(groups, key) == \E i \in 1..Len(groups) : groups[i].key = key

NewGroup(key) == [key |-> key, sessions |-> {}, prompts |-> 0, active |-> 0]

\* Mutant: every slice of the group counts as a prompt.
Accumulate_EverySliceAPrompt(g, s) ==
    [g EXCEPT !.sessions = @ \cup {s.session},
              !.prompts = @ + 1,
              !.active = @ + s.seconds]

\* g.sessions.add(s.session); if (s.isPrompt) g.prompts += 1;
\* g.active += s.seconds
Accumulate(g, s) ==
    [g EXCEPT !.sessions = @ \cup {s.session},
              !.prompts = @ + (IF s.isPrompt THEN 1 ELSE 0),
              !.active = @ + s.seconds]

\* One turn of a rollup loop: create the key's group if need be, then add
\* the slice to it.
AddToGroup(groups, key, s) ==
    LET gs == IF Has(groups, key) THEN groups
              ELSE Append(groups, NewGroup(key))
    IN  [i \in 1..Len(gs) |->
            IF gs[i].key = key THEN Accumulate(gs[i], s) ELSE gs[i]]

RECURSIVE aggregateFrom(_, _, _, _)
aggregateFrom(ss, name, i, groups) ==
    IF i > Len(ss) THEN groups
    ELSE LET key == keyFn(name, ss[i])
         IN  IF ~Truthy(key) THEN aggregateFrom(ss, name, i + 1, groups)
             ELSE aggregateFrom(ss, name, i + 1,
                                AddToGroup(groups, key, ss[i]))

aggregate(ss, name) ==
    LET groups == aggregateFrom(ss, name, 1, <<>>)
    IN  [i \in 1..Len(groups) |->
            [key |-> groups[i].key,
             sessions |-> Cardinality(groups[i].sessions),
             prompts |-> groups[i].prompts,
             active |-> groups[i].active]]

\* Slices as buildSlices returns them: of two sessions, with and without a
\* project and a ticket, on two days; a prompt slice of 0 or 2 thousandths
\* anchored at a prompt (no model), or a slice of 1 anchored at a
\* SessionStart (with its model).
RollupInputs ==
    {[session |-> sid, project |-> p, ticket |-> t,
      model |-> IF k[2] THEN None ELSE Opus,
      date |-> d, seconds |-> k[1], isPrompt |-> k[2]] :
        sid \in {"sA", "sB"}, p \in {None, MyApp}, t \in {None, Ban1},
        d \in {0, 1}, k \in {<<0, TRUE>>, <<2, TRUE>>, <<1, FALSE>>}}

InitRollup ==
    /\ entries = <<>>
    /\ breakMs = BreakMs
    /\ status = "sliced"
    /\ slices \in UNION {[1..n -> RollupInputs] : n \in 0..MaxRollup}
    /\ opts = NoOpts
    /\ filtered = <<>>
    /\ rollup = Idle /\ files = Idle /\ cli = Idle /\ timelog = Idle

\* aggregate(slices, keyFn), as the by-project, by-ticket, by-model and
\* by-day views call it.
RunAggregate ==
    /\ status = "sliced"
    /\ \E name \in KeyFns :
          rollup' = [view |-> "aggregate", keyFn |-> name,
                     groups |-> aggregate(slices, name)]
    /\ status' = "rolled"
    /\ UNCHANGED <<entries, breakMs, slices, opts, filtered,
                   files, cli, timelog>>
\* buildTimesheet: project -> ticket, both levels with their session sets.
NewProject(key) ==
    [key |-> key, sessions |-> {}, prompts |-> 0, active |-> 0,
     tickets |-> <<>>]

\* Mutant: a slice without a ticket is left out of the ticket level.
TimesheetStep_UntrackedDropped(projects, s) ==
    LET proj == OrElse(s.project, UnknownLabel)
        ps == IF Has(projects, proj) THEN projects
              ELSE Append(projects, NewProject(proj))
    IN  [i \in 1..Len(ps) |->
            IF ps[i].key = proj
            THEN [Accumulate(ps[i], s) EXCEPT
                     !.tickets = IF Truthy(s.ticket)
                                 THEN AddToGroup(@, s.ticket, s) ELSE @]
            ELSE ps[i]]

\* The body of buildTimesheet's loop.
TimesheetStep(projects, s) ==
    LET proj == OrElse(s.project, UnknownLabel)
        tkt == OrElse(s.ticket, UntrackedLabel)
        ps == IF Has(projects, proj) THEN projects
              ELSE Append(projects, NewProject(proj))
    IN  [i \in 1..Len(ps) |->
            IF ps[i].key = proj
            THEN [Accumulate(ps[i], s) EXCEPT
                     !.tickets = AddToGroup(@, tkt, s)]
            ELSE ps[i]]

RECURSIVE buildTimesheetFrom(_, _, _)
buildTimesheetFrom(ss, i, projects) ==
    IF i > Len(ss) THEN projects
    ELSE buildTimesheetFrom(ss, i + 1, TimesheetStep(projects, ss[i]))

buildTimesheet(ss) == buildTimesheetFrom(ss, 1, <<>>)

\* buildDayProjectTicket: day -> project -> ticket, prompts and active only.
NewDayProject(dk, proj) ==
    [key |-> <<dk, proj>>, date |-> dk, project |-> proj,
     prompts |-> 0, active |-> 0, tickets |-> <<>>]

NewTicket(key) == [key |-> key, prompts |-> 0, active |-> 0]

\* if (s.isPrompt) g.prompts += 1; g.active += s.seconds
Tally(g, s) ==
    [g EXCEPT !.prompts = @ + (IF s.isPrompt THEN 1 ELSE 0),
              !.active = @ + s.seconds]

\* if (tkt) { ... tg.prompts, tg.active ... }
TallyTicket(tickets, tkt, s) ==
    IF ~Truthy(tkt) THEN tickets
    ELSE LET ts == IF Has(tickets, tkt) THEN tickets
                   ELSE Append(tickets, NewTicket(tkt))
         IN  [j \in 1..Len(ts) |->
                 IF ts[j].key = tkt THEN Tally(ts[j], s) ELSE ts[j]]

\* The body of buildDayProjectTicket's loop.
DayProjectStep(days, s) ==
    LET proj == OrElse(s.project, UnknownLabel)
        tkt == OrElse(s.ticket, None)
        dk == s.date
        pk == <<dk, proj>>
        ds == IF Has(days, dk) THEN days
              ELSE Append(days, [key |-> dk, projects |-> <<>>])
        AddProject(dayMap) ==
            LET pm == IF Has(dayMap, pk) THEN dayMap
                      ELSE Append(dayMap, NewDayProject(dk, proj))
            IN  [j \in 1..Len(pm) |->
                    IF pm[j].key = pk
                    THEN [Tally(pm[j], s) EXCEPT
                             !.tickets = TallyTicket(@, tkt, s)]
                    ELSE pm[j]]
    IN  [i \in 1..Len(ds) |->
            IF ds[i].key = dk
            THEN [ds[i] EXCEPT !.projects = AddProject(@)]
            ELSE ds[i]]

RECURSIVE buildDayProjectTicketFrom(_, _, _)
buildDayProjectTicketFrom(ss, i, days) ==
    IF i > Len(ss) THEN days
    ELSE buildDayProjectTicketFrom(ss, i + 1, DayProjectStep(days, ss[i]))

buildDayProjectTicket(ss) == buildDayProjectTicketFrom(ss, 1, <<>>)

\* printTimesheet: const projects = buildTimesheet(slices)
RunBuildTimesheet ==
    /\ status = "sliced"
    /\ rollup' = [view |-> "timesheet", keyFn |-> "",
                  groups |-> buildTimesheet(slices)]
    /\ status' = "rolled"
    /\ UNCHANGED <<entries, breakMs, slices, opts, filtered,
                   files, cli, timelog>>

\* printDayProject: const days = buildDayProjectTicket(slices)
RunBuildDayProjectTicket ==
    /\ status = "sliced"
    /\ rollup' = [view |-> "day", keyFn |-> "",
                  groups |-> buildDayProjectTicket(slices)]
    /\ status' = "rolled"
    /\ UNCHANGED <<entries, breakMs, slices, opts, filtered,
                   files, cli, timelog>>

NextRollup == RunAggregate \/ RunBuildTimesheet \/ RunBuildDayProjectTicket

SpecRollup == InitRollup /\ [][NextRollup]_vars
----------------------------------------------------------------------------
(* C11-C13: the rollups (specification SpecRollup), measured against sums  *)
(* taken directly over the input slices.                                    *)

RECURSIVE SumSeq(_)
SumSeq(ns) == IF ns = <<>> THEN 0 ELSE ns[1] + SumSeq(Tail(ns))

RefPrompts(ss) == Len(SelectSeq(ss, LAMBDA sl : sl.isPrompt))

RefSessionSet(ss) == {ss[j].session : j \in 1..Len(ss)}

RefPresent(o) == o.some /\ o.chars # <<>>

RefLabel(o, fallback) == IF RefPresent(o) THEN o ELSE fallback

RefKeys(gs) == {gs[i].key : i \in 1..Len(gs)}

\* The input slices keyFn maps to a key.
RefKeyed(name, key) == SelectSeq(slices, LAMBDA sl : keyFn(name, sl) = key)

\* C11: aggregate returns one group per distinct key keyFn yields; a
\* group's sessions is the number of distinct session ids among its slices,
\* its prompts the number of its isPrompt slices, its active the sum of
\* their seconds; a slice without a key is in no group, and when every
\* slice has a key the groups' active and prompts add up to the totals.
C11_Aggregate ==
    (status = "rolled" /\ rollup.view = "aggregate") =>
        LET gs == rollup.groups
            name == rollup.keyFn
            yielded == {keyFn(name, slices[i]) : i \in 1..Len(slices)}
            keys == {k \in yielded : RefPresent(k)}
        IN  /\ RefKeys(gs) = keys
            /\ Len(gs) = Cardinality(keys)
            /\ \A i \in 1..Len(gs) :
                  LET mine == RefKeyed(name, gs[i].key)
                  IN  /\ gs[i].sessions = Cardinality(RefSessionSet(mine))
                      /\ gs[i].prompts = RefPrompts(mine)
                      /\ gs[i].active = SumSeconds(mine)
            /\ (yielded = keys =>
                  /\ SumSeq([i \in 1..Len(gs) |-> gs[i].active])
                        = SumSeconds(slices)
                  /\ SumSeq([i \in 1..Len(gs) |-> gs[i].prompts])
                        = RefPrompts(slices))

\* Two slices of one session without a project, a prompt of 2 and a
\* non-prompt of 1, aggregated by project with the '(unknown)' fallback:
\* one group, 1 session, 1 prompt, 3 active.
C11_Witness ==
    /\ status = "rolled"
    /\ rollup.view = "aggregate"
    /\ rollup.keyFn = "projectOrUnknown"
    /\ Len(slices) = MaxRollup
    /\ \A i \in 1..Len(slices) :
          ~slices[i].project.some /\ slices[i].session = "sA"
    /\ \E i, j \in 1..Len(slices) :
          slices[i].isPrompt /\ slices[i].seconds = 2 /\ ~slices[j].isPrompt
    /\ Len(rollup.groups) = 1
    /\ rollup.groups[1].key = UnknownLabel
    /\ rollup.groups[1].sessions = 1
    /\ rollup.groups[1].prompts >= 1
    /\ rollup.groups[1].active >= 3

RefProject(sl) == RefLabel(sl.project, UnknownLabel)

RefTicket(sl) == RefLabel(sl.ticket, UntrackedLabel)

RefOfProject(p) == SelectSeq(slices, LAMBDA sl : RefProject(sl) = p)

RefOfTicket(p, t) ==
    SelectSeq(slices, LAMBDA sl : RefProject(sl) = p /\ RefTicket(sl) = t)

\* C12: in buildTimesheet every project group's active, prompts and session
\* set are the sum, sum and union over its ticket sub-groups; a slice
\* without a project is under '(unknown)', one without a ticket under
\* '(untracked)', and every slice is counted in exactly one project group
\* and one ticket sub-group.
C12_TimesheetLevelsAgree ==
    (status = "rolled" /\ rollup.view = "timesheet") =>
        LET ps == rollup.groups
        IN  /\ RefKeys(ps) = {RefProject(slices[k]) : k \in 1..Len(slices)}
            /\ Len(ps) = Cardinality(RefKeys(ps))
            /\ \A i \in 1..Len(ps) :
                  LET ts == ps[i].tickets
                      mine == RefOfProject(ps[i].key)
                  IN  /\ ps[i].active = SumSeconds(mine)
                      /\ ps[i].prompts = RefPrompts(mine)
                      /\ ps[i].sessions = RefSessionSet(mine)
                      /\ SumSeq([j \in 1..Len(ts) |-> ts[j].active])
                            = ps[i].active
                      /\ SumSeq([j \in 1..Len(ts) |-> ts[j].prompts])
                            = ps[i].prompts
                      /\ UNION {ts[j].sessions : j \in 1..Len(ts)}
                            = ps[i].sessions
                      /\ RefKeys(ts)
                            = {RefTicket(mine[k]) : k \in 1..Len(mine)}
                      /\ Len(ts) = Cardinality(RefKeys(ts))
                      /\ \A j \in 1..Len(ts) :
                            LET own == RefOfTicket(ps[i].key, ts[j].key)
                            IN  /\ ts[j].active = SumSeconds(own)
                                /\ ts[j].prompts = RefPrompts(own)
                                /\ ts[j].sessions = RefSessionSet(own)

\* Two slices of two sessions without a project, one with a ticket and
\* one without: one '(unknown)' project of 2 sessions, two ticket
\* sub-groups, one of them '(untracked)'.
C12_Witness ==
    /\ status = "rolled"
    /\ rollup.view = "timesheet"
    /\ Len(slices) = MaxRollup
    /\ \E i, j \in 1..Len(slices) :
          /\ ~slices[i].ticket.some /\ slices[j].ticket.some
          /\ slices[i].session # slices[j].session
          /\ slices[i].seconds > 0 /\ slices[j].seconds > 0
    /\ Len(rollup.groups) = 1
    /\ rollup.groups[1].key = UnknownLabel
    /\ Cardinality(rollup.groups[1].sessions) = 2
    /\ Len(rollup.groups[1].tickets) = 2
    /\ \E j \in 1..2 : rollup.groups[1].tickets[j].key = UntrackedLabel

\* C13: in buildDayProjectTicket every (day, project) group's active and
\* prompts are the sums over its ticket sub-groups: a slice without a
\* ticket is counted in a sub-group too.
C13_DayLevelsAgree ==
    (status = "rolled" /\ rollup.view = "day") =>
        \A d \in 1..Len(rollup.groups) :
            \A i \in 1..Len(rollup.groups[d].projects) :
                LET pg == rollup.groups[d].projects[i]
                    ts == pg.tickets
                IN  /\ SumSeq([j \in 1..Len(ts) |-> ts[j].active])
                          = pg.active
                    /\ SumSeq([j \in 1..Len(ts) |-> ts[j].prompts])
                          = pg.prompts

----------------------------------------------------------------------------
(* The reader, parseEntries.  A line of a log file is blank, is the JSON   *)
(* text of an entry (held as the one-element sequence of the value it      *)
(* parses to), or is text JSON.parse rejects.  A path of the list names a  *)
(* file that exists, with its lines, or no file.                            *)

MaxFiles == 2       \* paths handed to parseEntries
MaxLines == 2       \* lines of a log file

BlankLine == [kind |-> "blank", json |-> <<>>]
MalformedLine == [kind |-> "malformed", json |-> <<>>]
JsonLine(e) == [kind |-> "json", json |-> <<e>>]

\* !line.trim()
IsBlank(line) == line.kind = "blank"

\* JSON.parse(line)
JSONparse(line) == IF line.kind = "json" THEN Ok(line.json) ELSE Threw

\* Mutant: a parsed line is put in front of the entries read so far.
PushLine_Unshift(acc, line) ==
    LET r == JSONparse(line)
    IN  IF IsBlank(line) \/ r.threw THEN acc ELSE r.out \o acc

\* if (!line.trim()) continue;
\* try { entries.push(JSON.parse(line)) } catch { }
PushLine(acc, line) ==
    LET r == JSONparse(line)
    IN  IF IsBlank(line) \/ r.threw THEN acc ELSE acc \o r.out

RECURSIVE readLines(_, _, _)
readLines(lines, i, acc) ==
    IF i > Len(lines) THEN acc
    ELSE readLines(lines, i + 1, PushLine(acc, lines[i]))

\* The files are read one after the other.  createReadStream of a path
\* that names no file emits 'error' (ENOENT): the call does not return.
RECURSIVE parseEntriesFrom(_, _, _)
parseEntriesFrom(fs, i, acc) ==
    IF i > Len(fs) THEN Ok(acc)
    ELSE IF ~fs[i].exists THEN Threw
    ELSE parseEntriesFrom(fs, i + 1, readLines(fs[i].lines, 1, acc))

parseEntries(fs) == parseEntriesFrom(fs, 1, <<>>)

\* How a stream error ends the call, depending on the runtime: readline
\* forwards it and the for await rejects, or it is an unhandled 'error'
\* event.
StreamErrorOutcomes == {"threw", "crashed"}

ReaderEvents ==
    {Event("sA", t, Prompt, MyApp, None, None) : t \in 0..1}

ReaderLines ==
    {BlankLine, MalformedLine} \cup {JsonLine(e) : e \in ReaderEvents}

ReaderFiles ==
    {[exists |-> FALSE, lines |-> <<>>]} \cup
    {[exists |-> TRUE, lines |-> ls] :
        ls \in UNION {[1..n -> ReaderLines] : n \in 0..MaxLines}}

InitReader ==
    /\ entries = <<>>
    /\ breakMs = BreakMs
    /\ status = "files"
    /\ slices = <<>>
    /\ opts = NoOpts
    /\ filtered = <<>>
    /\ files \in UNION {[1..n -> ReaderFiles] : n \in 0..MaxFiles}
    /\ rollup = Idle /\ cli = Idle /\ timelog = Idle

\* const entries = await parseEntries(files)
RunParseEntries ==
    /\ status = "files"
    /\ LET r == parseEntries(files)
       IN  /\ entries' = r.out
           /\ IF r.threw THEN status' \in StreamErrorOutcomes
              ELSE status' = "parsed"
    /\ UNCHANGED <<breakMs, slices, opts, filtered, rollup, files, cli,
                   timelog>>

NextReader == RunParseEntries

SpecReader == InitReader /\ [][NextReader]_vars

----------------------------------------------------------------------------
(* C14, C15: the reader (specification SpecReader).                         *)

RefValidLines(f) == SelectSeq(f.lines, LAMBDA l : l.kind = "json")

RefFileEntries(f) ==
    [k \in 1..Len(RefValidLines(f)) |-> RefValidLines(f)[k].json[1]]

\* The entries of the first n files that exist, in file then line order.
RECURSIVE RefConcat(_)
RefConcat(n) ==
    IF n = 0 THEN <<>>
    ELSE RefConcat(n - 1) \o
         (IF files[n].exists THEN RefFileEntries(files[n]) ELSE <<>>)

RefAllExist == \A i \in 1..Len(files) : files[i].exists

\* C14: parseEntries returns the values of the non-blank lines that are
\* valid JSON, in file order then line order; a line that does not parse
\* adds nothing and does not stop the read, so the result is as long as
\* the number of valid lines.
C14_ParseEntriesOrder ==
    (status # "files" /\ RefAllExist) =>
        /\ status = "parsed"
        /\ entries = RefConcat(Len(files))
        /\ Len(entries) =
              SumSeq([i \in 1..Len(files) |-> Len(RefValidLines(files[i]))])

\* Two files; the first holds a malformed line and then the later entry,
\* the second a blank line and then the earlier entry: both entries are
\* returned, the first file's first.
C14_Witness ==
    /\ status = "parsed"
    /\ Len(files) = MaxFiles
    /\ files[1].lines # <<>> /\ files[1].lines[1] = MalformedLine
    /\ \E k \in 1..Len(files[2].lines) : files[2].lines[k] = BlankLine
    /\ Len(entries) = 2
    /\ entries[1].ts > entries[2].ts
    /\ entries[1] = files[1].lines[Len(files[1].lines)].json[1]

\* C15: parseEntries returns without error for a file that is empty and
\* for a path that names no file, each adding no entries, and returns the
\* entries of the other files.
C15_EmptyOrMissingFile ==
    status # "files" =>
        /\ status = "parsed"
        /\ entries = RefConcat(Len(files))

----------------------------------------------------------------------------
(* A run of the report command with --from and --to.  A day is its number  *)
(* since the epoch, so that the file of day d is d.jsonl and dateKey       *)
(* orders as the 'YYYY-MM-DD' strings do.  The host's timezone is its      *)
(* offset from UTC in milliseconds (local = UTC + tz), without DST.        *)

MaxDay == 2         \* --from and --to range over the days 1..MaxDay

\* 'T23:59:59' past local midnight
EndOfDayMs == 86399000

\* UTC-8, UTC and UTC+9
TzOffsets == {-(MsPerDay \div 3), 0, 3 * (MsPerDay \div 8)}

\* The days a file of the timelog directory may be named after.
DirDays == 0..(MaxDay + 1)

\* What the file of a day holds: no such file; no line; one SessionStart
\* (no slice); a prompt and, a millisecond later, a SessionStart (a slice).
DayKinds == {"absent", "empty", "quiet", "active"}

DayFile(d, kind) ==
    LET start == JsonLine(Event("sA", d * MsPerDay + 1, "SessionStart",
                                MyApp, None, Opus))
        prompt == JsonLine(Event("sA", d * MsPerDay, Prompt,
                                 MyApp, None, None))
    IN  [exists |-> kind # "absent",
         lines |-> CASE kind = "quiet" -> <<start>>
                     [] kind = "active" -> <<prompt, start>>
                     [] OTHER -> <<>>]

\* new Date(day + 'T00:00:00'): local midnight, as a UTC instant
localMidnight(day, tz) == day * MsPerDay - tz

startDate(c) == localMidnight(c.from, c.tz)

endDate(c) == localMidnight(c.to, c.tz) + EndOfDayMs

\* readdirSync(...).filter(...): the names are taken in ascending order.
RECURSIVE getLogFilesFrom(_, _, _, _)
getLogFilesFrom(dir, start, end, d) ==
    IF d > MaxDay + 1 THEN <<>>
    ELSE (IF dir[d] # "absent" /\ d >= start /\ d <= end
          THEN <<d>> ELSE <<>>)
         \o getLogFilesFrom(dir, start, end, d + 1)

getLogFiles(c) ==
    IF ~c.dirExists THEN <<>>
    ELSE getLogFilesFrom(c.dir, dateKey(startDate(c)), dateKey(endDate(c)),
                         0)

\* Mutant: the run goes on without files.
NoData_Never(fs) == FALSE

\* files.length === 0
NoData(fs) == Len(fs) = 0

NoOutput == [kind |-> "none"]

\* The 'Total:' line of the text report.
TextReport(ss) ==
    [kind |-> "text",
     sessions |-> Cardinality({ss[i].session : i \in 1..Len(ss)}),
     prompts |-> Len(SelectSeq(ss, LAMBDA sl : sl.isPrompt)),
     active |-> SumSeconds(ss)]

\* The JSON report of a run without view flags.
JsonReport(ss) ==
    [kind |-> "json", byProject |-> aggregate(ss, "projectOrUnknown")]

\* --project with a name no entry of the model has, or no filter.
CliOpts == {NoOpts, [project |-> Some(<<"t">>), ticket |-> None]}

InitCli ==
    /\ entries = <<>>
    /\ breakMs = BreakMs
    /\ status = "cli"
    /\ slices = <<>>
    /\ opts \in CliOpts
    /\ filtered = <<>>
    /\ files = <<>>
    /\ \E dirExists \in BOOLEAN, dir \in [DirDays -> DayKinds],
          from \in 1..MaxDay, to \in 1..MaxDay, tz \in TzOffsets,
          format \in {"text", "json"} :
          /\ ~dirExists => \A d \in DirDays : dir[d] = "absent"
          /\ cli = [dirExists |-> dirExists, dir |-> dir,
                    from |-> from, to |-> to, tz |-> tz,
                    format |-> format, selected |-> <<>>,
                    exit |-> -1, stderr |-> "", stdout |-> NoOutput]
    /\ rollup = Idle /\ timelog = Idle

\* The run, from getLogFiles() to the exit of the process.  An exception
\* that nothing catches ends the process with status 1.
RunReport ==
    /\ status = "cli"
    /\ status' = "exited"
    /\ LET sel == getLogFiles(cli)
           fs == [i \in 1..Len(sel) |-> DayFile(sel[i], cli.dir[sel[i]])]
           p == parseEntries(fs)
           b == buildSlices(p.out, breakMs)
           ss == filterSlices(b.out, opts)
       IN  /\ files' = fs
           /\ IF NoData(fs)
              THEN /\ cli' = [cli EXCEPT !.selected = sel, !.exit = 1,
                                         !.stderr = "No timelog data"]
                   /\ UNCHANGED <<entries, slices, filtered>>
              ELSE IF p.threw \/ b.threw
              THEN /\ cli' = [cli EXCEPT !.selected = sel, !.exit = 1,
                                         !.stderr = "uncaught"]
                   /\ entries' = p.out
                   /\ UNCHANGED <<slices, filtered>>
              ELSE /\ entries' = p.out
                   /\ slices' = b.out
                   /\ filtered' = ss
                   /\ cli' = [cli EXCEPT
                                 !.selected = sel, !.exit = 0,
                                 !.stdout = IF cli.format = "json"
                                            THEN JsonReport(ss)
                                            ELSE TextReport(ss)]
    /\ UNCHANGED <<breakMs, opts, rollup, timelog>>

NextCli == RunReport

SpecCli == InitCli /\ [][NextCli]_vars

----------------------------------------------------------------------------
(* C16, C17: the command (specification SpecCli).                           *)

C17_FromToFileSet ==
    status = "exited" =>
        {cli.selected[i] : i \in 1..Len(cli.selected)}
            = {d \in DirDays : /\ cli.dir[d] # "absent"
                               /\ cli.from <= d /\ d <= cli.to}

----------------------------------------------------------------------------
(* Backfill.  The timelog directory maps a day to its file (the reader's   *)
(* file shape); an entry of a day file is                                  *)
(* [ts, event, session, ticket, source], its source 'backfill', the        *)
(* hook's SessionStart source, or absent ("").  The transcripts are known  *)
(* by what processTranscript returns for them.  Two versions of main are   *)
(* in the repository: one merges into a rewritten day file, one appends.   *)

MaxLive == 2        \* lines the hook appends to a day file
MaxRuns == 2        \* backfill runs

BackfillDays == {0, 1}

\* A field whose value is null, which JSON.stringify would write and
\* stripNulls removes.
Null == [some |-> FALSE, chars |-> <<"n", "u", "l", "l">>]

LogEntry(t, k, s, tk, src) ==
    [ts |-> t, event |-> k, session |-> s, ticket |-> tk, source |-> src]

\* Object.fromEntries(Object.entries(obj).filter(([, v]) => v != null))
stripNulls(e) == [e EXCEPT !.ticket = IF @ = Null THEN None ELSE @]

Transcripts == {"tA", "tB"}

\* The ticket matchTicket finds under a configuration, or null.
TicketUnder(config) == IF config = "patterns" THEN Ban1 ELSE Null

\* processTranscript: SessionStart at the first timestamp, the prompts,
\* SessionEnd at the last.  tA lies within day 0; tB starts on day 0 and
\* ends on day 1.
processTranscript(t, config) ==
    IF t = "tA"
    THEN <<LogEntry(0, "SessionStart", "tA", TicketUnder(config),
                    "backfill"),
           LogEntry(1, Prompt, "tA", TicketUnder(config), "backfill"),
           LogEntry(1, "SessionEnd", "tA", TicketUnder(config),
                    "backfill")>>
    ELSE <<LogEntry(1, "SessionStart", "tB", Null, "backfill"),
           LogEntry(MsPerDay, "SessionEnd", "tB", Null, "backfill")>>

\* entry.ts?.slice(0, 10)
dateOf(e) == dateKey(e.ts)

\* byDate.get(date): the entries of that date, in transcript order.
byDate(present, config, d) ==
    LET of(t) == IF t \in present
                 THEN SelectSeq(processTranscript(t, config),
                                LAMBDA e : dateOf(e) = d)
                 ELSE <<>>
    IN  of("tA") \o of("tB")

\* [...].sort((a, b) => (a.ts || '').localeCompare(b.ts || '')): stable,
\* ascending; ISO timestamps compare as their instants.
RECURSIVE sortByTs(_)
sortByTs(es) ==
    IF es = <<>> THEN <<>>
    ELSE LET front == sortByTs(SubSeq(es, 1, Len(es) - 1))
             x == es[Len(es)]
             k == Cardinality({i \in 1..Len(front) : front[i].ts <= x.ts})
         IN  SubSeq(front, 1, k) \o <<x>> \o SubSeq(front, k + 1, Len(front))

\* lines.map((e) => JSON.stringify(stripNulls(e)))
toLines(es) == [i \in 1..Len(es) |-> JsonLine(stripNulls(es[i]))]

\* Mutant: only entries without any source are kept.
IsLive_NoSourceOnly(e) == e.source = ""

\* e.source !== 'backfill'
IsLive(e) == e.source # "backfill"

\* The entries of an existing day file that are kept: blank and malformed
\* lines and backfill entries are left out.
RECURSIVE keptFrom(_, _)
keptFrom(lines, i) ==
    IF i > Len(lines) THEN <<>>
    ELSE LET r == JSONparse(lines[i])
         IN  (IF IsBlank(lines[i]) \/ r.threw THEN <<>>
              ELSE IF IsLive(r.out[1]) THEN r.out ELSE <<>>)
             \o keptFrom(lines, i + 1)

kept(file) == IF file.exists THEN keptFrom(file.lines, 1) ELSE <<>>

\* The body of the loop over allDates: nothing is written when the merge
\* is empty.
mergeDay(file, backfill) ==
    LET merged == sortByTs(kept(file) \o backfill)
    IN  IF merged = <<>> THEN file
        ELSE [exists |-> TRUE, lines |-> toLines(merged)]

\* appendFileSync(path, lines + '\n'), for the dates of byDate
appendDay(file, backfill) ==
    IF backfill = <<>> THEN file
    ELSE [exists |-> TRUE,
          lines |-> file.lines \o toLines(sortByTs(backfill))]

NoFile == [exists |-> FALSE, lines |-> <<>>]

InitBackfill ==
    /\ entries = <<>>
    /\ breakMs = BreakMs
    /\ status = "backfill"
    /\ slices = <<>>
    /\ opts = NoOpts
    /\ filtered = <<>>
    /\ \E present \in SUBSET Transcripts :
          timelog = [dir |-> [d \in BackfillDays |-> NoFile],
                     present |-> present, config |-> "default",
                     before |-> [d \in BackfillDays |-> NoFile],
                     fresh |-> FALSE, ranLast |-> FALSE, rerun |-> FALSE,
                     runs |-> 0]
    /\ rollup = Idle /\ files = Idle /\ cli = Idle

RefLiveLines(file) ==
    SelectSeq(file.lines,
              LAMBDA l : l.kind = "json" /\ l.json[1].source # "backfill")

Touched(t) == [t EXCEPT !.fresh = FALSE, !.ranLast = FALSE, !.rerun = FALSE]

\* The day the hook runs on: its entries go to the file of that day.
Today == 0

\* The hook appends an entry to the file of the current day: first a
\* SessionStart (with the session's source), then prompts a millisecond
\* later.
HookAppend ==
    /\ status = "backfill"
    /\ LET file == timelog.dir[Today]
           n == Len(RefLiveLines(file))
           e == IF n = 0
                THEN LogEntry(Today * MsPerDay, "SessionStart", "sL", None,
                              "startup")
                ELSE LogEntry(Today * MsPerDay + 1, Prompt, "sL", None, "")
       IN  /\ n < MaxLive
           /\ timelog' = [Touched(timelog) EXCEPT
                             !.dir[Today] =
                                 [exists |-> TRUE,
                                  lines |-> Append(file.lines, JsonLine(e))]]
    /\ UNCHANGED <<entries, breakMs, status, slices, opts, filtered,
                   rollup, files, cli>>

\* An append of the hook that was cut short leaves a line that does not
\* parse.
HookAppendTorn ==
    /\ status = "backfill"
    /\ LET file == timelog.dir[Today]
       IN  /\ \A i \in 1..Len(file.lines) : file.lines[i] # MalformedLine
           /\ Len(RefLiveLines(file)) < MaxLive
           /\ timelog' = [Touched(timelog) EXCEPT
                             !.dir[Today] =
                                 [exists |-> TRUE,
                                  lines |-> Append(file.lines,
                                                   MalformedLine)]]
    /\ UNCHANGED <<entries, breakMs, status, slices, opts, filtered,
                   rollup, files, cli>>

\* Between runs transcripts appear or are removed, and the ticket
\* patterns of the configuration are edited.
TranscriptsChange ==
    /\ status = "backfill"
    /\ \E present \in SUBSET Transcripts, config \in {"default", "patterns"} :
          /\ <<present, config>> # <<timelog.present, timelog.config>>
          /\ timelog' = [Touched(timelog) EXCEPT
                            !.present = present, !.config = config]
    /\ UNCHANGED <<entries, breakMs, status, slices, opts, filtered,
                   rollup, files, cli>>

\* What a run leaves besides the files: the directory it started from,
\* and whether it started from what the previous run left.
Ran(t, dir) ==
    [t EXCEPT !.dir = dir, !.before = t.dir, !.rerun = t.fresh,
              !.fresh = TRUE, !.ranLast = TRUE, !.runs = @ + 1]

\* main of the merging version: every date that has backfill entries or a
\* file is merged and rewritten.
RunBackfill ==
    /\ status = "backfill"
    /\ timelog.runs < MaxRuns
    /\ LET bf(d) == byDate(timelog.present, timelog.config, d)
           allDates == {d \in BackfillDays :
                           bf(d) # <<>> \/ timelog.dir[d].exists}
           dir == [d \in BackfillDays |->
                      IF d \in allDates THEN mergeDay(timelog.dir[d], bf(d))
                      ELSE timelog.dir[d]]
       IN  timelog' = Ran(timelog, dir)
    /\ UNCHANGED <<entries, breakMs, status, slices, opts, filtered,
                   rollup, files, cli>>

\* main of the appending version (scripts/backfill.mjs).
RunBackfillAppend ==
    /\ status = "backfill"
    /\ timelog.runs < MaxRuns
    /\ LET bf(d) == byDate(timelog.present, timelog.config, d)
           dir == [d \in BackfillDays |-> appendDay(timelog.dir[d], bf(d))]
       IN  timelog' = Ran(timelog, dir)
    /\ UNCHANGED <<entries, breakMs, status, slices, opts, filtered,
                   rollup, files, cli>>

NextBackfill ==
    HookAppend \/ HookAppendTorn \/ TranscriptsChange \/ RunBackfill

SpecBackfill == InitBackfill /\ [][NextBackfill]_vars

NextBackfillAppend ==
    HookAppend \/ HookAppendTorn \/ TranscriptsChange \/ RunBackfillAppend

SpecBackfillAppend == InitBackfill /\ [][NextBackfillAppend]_vars

----------------------------------------------------------------------------
(* C18-C20: backfill runs (specifications SpecBackfill, of the merging     *)
(* main, and SpecBackfillAppend, of the appending main).                    *)

\* C18: a backfill run that starts from what the previous run left, with
\* the transcripts and the configuration unchanged, leaves every day file
\* with the same lines in the same order.
C18_BackfillIdempotent ==
    timelog.rerun => timelog.dir = timelog.before

RefCount(file, l) == Len(SelectSeq(file.lines, LAMBDA x : x = l))

\* C19: every parseable entry that was in a day file before a run and whose
\* source is not 'backfill' is in that file after it, unchanged and as
\* many times, run after run.
C19_LiveEntriesPreserved ==
    timelog.runs > 0 =>
        \A d \in BackfillDays :
            LET live == RefLiveLines(timelog.before[d])
            IN  \A i \in 1..Len(live) :
                    RefCount(timelog.dir[d], live[i])
                        >= RefCount(timelog.before[d], live[i])

\* A later run finds, in today's file, the hook's SessionStart (which has
\* a source of its own) and a prompt next to the previous run's backfill
\* entries; it rewrites the file with other backfill entries and both
\* hook entries are still there.
C19_Witness ==
    /\ timelog.ranLast
    /\ timelog.runs >= 2
    /\ LET was == timelog.before[Today]
           now == timelog.dir[Today]
       IN  /\ \E i \in 1..Len(was.lines) :
                 /\ was.lines[i].kind = "json"
                 /\ was.lines[i].json[1].source = "backfill"
           /\ \E i \in 1..Len(was.lines) :
                 /\ was.lines[i].kind = "json"
                 /\ was.lines[i].json[1].source = "startup"
           /\ Len(RefLiveLines(was)) = MaxLive
           /\ RefLiveLines(now) = RefLiveLines(was)
           /\ now # was

\* The lines a run over the current transcripts writes for a day.
RefProduced(d) ==
    {JsonLine([e EXCEPT !.ticket = IF @.some THEN @ ELSE None]) :
        e \in UNION {{processTranscript(t, timelog.config)[i] :
                         i \in 1..Len(processTranscript(t, timelog.config))} :
                     t \in timelog.present}}

\* C20: after a run every entry of source 'backfill' in a day file was
\* produced by that run from the current transcripts, also in a day file
\* for which the run has no entries.
C20_BackfillReplaced ==
    timelog.ranLast =>
        \A d \in BackfillDays :
            \A i \in 1..Len(timelog.dir[d].lines) :
                LET l == timelog.dir[d].lines[i]
                IN  (l.kind = "json" /\ l.json[1].source = "backfill")
                        => (l \in RefProduced(d) /\ dateKey(l.json[1].ts) = d)

----------------------------------------------------------------------------
(* The default range of the report: startOfWeek(now).  A Date is its       *)
(* instant in milliseconds.  The host's zone gives the offset of local     *)
(* time from UTC before and after one change of clocks (none when the two  *)
(* offsets are equal); the Date setters go through local fields and back.  *)

MaxNowDay == 14     \* now ranges over the local days 1..MaxNowDay

\* getDay() of 1970-01-01, a Thursday
EpochWeekday == 4

DaysPerWeek == 7

HoursPerDay == 24

MsPerHour == MsPerDay \div HoursPerDay

\* The clocks change on day 10, a Sunday, at 01:00 UTC.
ClockChange == 10 * MsPerDay + MsPerHour

\* Hosts without a change of clocks, one whose clocks go back an hour
\* (UTC+2 to UTC+1) and one whose clocks go forward an hour.
Zones ==
    {[before |-> o, after |-> o] : o \in TzOffsets} \cup
    {[before |-> 2 * MsPerHour, after |-> MsPerHour],
     [before |-> MsPerHour, after |-> 2 * MsPerHour]}

\* Local time of an instant.
toLocal(t, z) == IF t < ClockChange THEN t + z.before ELSE t + z.after

\* The instant of a local time: a time the clocks show twice is the
\* earlier instant, a time they skip is read with the offset before the
\* change.
toUtc(l, z) ==
    IF l - z.before < ClockChange THEN l - z.before
    ELSE IF l - z.after >= ClockChange THEN l - z.after
    ELSE l - z.before

\* getDay(): 0 is Sunday
getDay(t, z) == (toLocal(t, z) \div MsPerDay + EpochWeekday) % DaysPerWeek

\* r.setDate(r.getDate() + diff): the same local time, diff days later
setDate(t, diff, z) == toUtc(toLocal(t, z) + diff * MsPerDay, z)

\* r.setHours(0, 0, 0, 0): local midnight of the same local day
setHoursZero(t, z) == toUtc((toLocal(t, z) \div MsPerDay) * MsPerDay, z)

\* Mutant: a Sunday is moved to the Monday that follows it.
startOfWeek_SundayForward(d, z) ==
    [d |-> d,
     r |-> setHoursZero(setDate(d, 1 - getDay(d, z), z), z)]

\* The Date returned (r) and the argument after the call (d), which
\* new Date(d) has copied.
startOfWeek(d, z) ==
    LET day == getDay(d, z)
        diff == IF day = 0 THEN -6 ELSE 1 - day
    IN  [d |-> d, r |-> setHoursZero(setDate(d, diff, z), z)]

\* Times of day: midnight, its next millisecond, noon, the last millisecond.
TimesOfDay == {0, 1, MsPerDay \div 2, MsPerDay - 1}

InitWeek ==
    /\ entries = <<>>
    /\ breakMs = BreakMs
    /\ status = "week"
    /\ slices = <<>>
    /\ opts = NoOpts
    /\ filtered = <<>>
    /\ \E day \in 1..MaxNowDay, tod \in TimesOfDay, z \in Zones :
          cli = [now |-> toUtc(day * MsPerDay + tod, z), zone |-> z,
                 nowAfter |-> toUtc(day * MsPerDay + tod, z),
                 startDate |-> 0]
    /\ rollup = Idle /\ files = Idle /\ timelog = Idle

\* startDate = startOfWeek(now)
RunStartOfWeek ==
    /\ status = "week"
    /\ LET w == startOfWeek(cli.now, cli.zone)
       IN  cli' = [cli EXCEPT !.startDate = w.r, !.nowAfter = w.d]
    /\ status' = "weekStarted"
    /\ UNCHANGED <<entries, breakMs, slices, opts, filtered, rollup, files,
                   timelog>>

NextWeek == RunStartOfWeek

SpecWeek == InitWeek /\ [][NextWeek]_vars

----------------------------------------------------------------------------
(* C21: startOfWeek (specification SpecWeek).                               *)

RefLocal(t, z) == t + (IF t < ClockChange THEN z.before ELSE z.after)

RefLocalDay(t, z) == RefLocal(t, z) \div MsPerDay

\* Day 4 since the epoch, 1970-01-05, was a Monday; day 3 a Sunday.
RefIsMonday(t, z) == (RefLocalDay(t, z) - 4) % 7 = 0

RefIsSunday(t, z) == (RefLocalDay(t, z) - 3) % 7 = 0

\* What C21 says of the result apart from its distance from d: a Monday
\* at local 00:00:00.000, at most d, a fixed point of startOfWeek, with d
\* left as it was.
RefMondayMidnight ==
    /\ RefIsMonday(cli.startDate, cli.zone)
    /\ RefLocal(cli.startDate, cli.zone) % MsPerDay = 0
    /\ cli.startDate <= cli.now
    /\ startOfWeek(cli.startDate, cli.zone).r = cli.startDate
    /\ cli.nowAfter = cli.now

\* C21 as stated: the result is the Monday of d's week at local midnight,
\* and d is less than 7 days (of 24 hours) after it.
C21_StartOfWeek ==
    status = "weekStarted" =>
        /\ RefMondayMidnight
        /\ cli.now - cli.startDate < 7 * MsPerDay

\* C21, amended: the result is the Monday of d's week at local midnight,
\* and d falls on that local day or one of the six after it, a Sunday on
\* the sixth.
C21_StartOfWeekLocalDays ==
    status = "weekStarted" =>
        /\ RefMondayMidnight
        /\ RefLocalDay(cli.now, cli.zone)
              - RefLocalDay(cli.startDate, cli.zone) \in 0..6
        /\ RefIsSunday(cli.now, cli.zone) =>
              RefLocalDay(cli.now, cli.zone)
                  - RefLocalDay(cli.startDate, cli.zone) = 6

\* The last millisecond of the Sunday on which the clocks went back: the
\* Monday returned is more than 7 * 24 hours before it, six local days.
C21_Witness ==
    /\ status = "weekStarted"
    /\ cli.zone.after < cli.zone.before
    /\ RefIsSunday(cli.now, cli.zone)
    /\ RefLocal(cli.now, cli.zone) % MsPerDay = MsPerDay - 1
    /\ cli.now - cli.startDate > 7 * MsPerDay

----------------------------------------------------------------------------
(* The configuration: validateConfig and loadConfig (lib/config.mjs), and  *)
(* the break threshold the report derives from it.  A JSON value is        *)
(* [t, n, f, s]: its type, and for a number its value n (f: it is finite), *)
(* for a string its characters s, for a boolean n = 1 for true.  A key     *)
(* that is absent has the value Absent.                                     *)

MaxThreshold == 86401   \* breakThreshold numbers range up to here

DefaultBreakThreshold == 1800

LimitBreakThreshold == 86400

FallbackBreakThreshold == 1800

MsPerSecond == 1000

Num(n) == [t |-> "number", n |-> n, f |-> TRUE, s |-> <<>>]
Infinite == [t |-> "number", n |-> 1, f |-> FALSE, s |-> <<>>]
NotANumber == [t |-> "number", n |-> 0, f |-> FALSE, s |-> <<>>]
Str(cs) == [t |-> "string", n |-> 0, f |-> FALSE, s |-> cs]
JsNull == [t |-> "null", n |-> 0, f |-> FALSE, s |-> <<>>]
Bool(b) == [t |-> "boolean", n |-> IF b THEN 1 ELSE 0, f |-> FALSE,
            s |-> <<>>]
Absent == [t |-> "absent", n |-> 0, f |-> FALSE, s |-> <<>>]

Digits == <<"0", "1", "2", "3", "4", "5", "6", "7", "8", "9">>

IsDigit(c) == \E k \in 1..Len(Digits) : Digits[k] = c

DigitValue(c) == (CHOOSE k \in 1..Len(Digits) : Digits[k] = c) - 1

RECURSIVE Decimal(_)
Decimal(cs) ==
    IF cs = <<>> THEN 0
    ELSE 10 * Decimal(SubSeq(cs, 1, Len(cs) - 1)) + DigitValue(cs[Len(cs)])

\* Number(v): a number is itself, '' is 0, a string of digits its value,
\* any other string NaN, null 0, true 1, false 0, undefined NaN.
Number(v) ==
    CASE v.t = "number" -> v
      [] v.t = "string" ->
            IF \A i \in 1..Len(v.s) : IsDigit(v.s[i])
            THEN Num(Decimal(v.s)) ELSE NotANumber
      [] v.t = "null" -> Num(0)
      [] v.t = "boolean" -> Num(v.n)
      [] OTHER -> NotANumber

\* !(!Number.isFinite(bt) || bt <= 0 || bt > 86400)
validBreakThreshold(bt) == bt.f /\ bt.n > 0 /\ bt.n <= LimitBreakThreshold

GitRoot == Str(<<"g">>)
Cwd == Str(<<"c">>)

\* validateConfig: the result, and the argument as the call leaves it.
\* The checks act on a copy ({ ...cfg }) and only on keys that are present.
validateConfig(cfg) ==
    LET bt == Number(cfg.breakThreshold)
        threshold ==
            IF cfg.breakThreshold = Absent THEN Absent
            ELSE IF validBreakThreshold(bt) THEN bt
            ELSE Num(DefaultBreakThreshold)
        source ==
            IF cfg.projectSource # Absent /\ cfg.projectSource # GitRoot
               /\ cfg.projectSource # Cwd
            THEN GitRoot ELSE cfg.projectSource
    IN  [arg |-> cfg,
         result |-> [breakThreshold |-> threshold, projectSource |-> source]]

DEFAULT_CONFIG ==
    [breakThreshold |-> Num(DefaultBreakThreshold), projectSource |-> GitRoot]

\* { ...DEFAULT_CONFIG, ...user }
Merge(user) ==
    [k \in DOMAIN DEFAULT_CONFIG |->
        IF user[k] = Absent THEN DEFAULT_CONFIG[k] ELSE user[k]]

\* loadConfig: the defaults when config.json cannot be read or parsed.
loadConfig(file) ==
    IF file.readable THEN validateConfig(Merge(file.user)).result
    ELSE DEFAULT_CONFIG

\* (config.breakThreshold || 1800) * 1000
breakMsOf(config) ==
    LET bt == config.breakThreshold
        truthy == bt.t = "number" /\ bt.f /\ bt.n # 0
    IN  (IF truthy THEN bt.n ELSE FallbackBreakThreshold) * MsPerSecond

\* What a user may write for breakThreshold.
ThresholdValues ==
    {Absent, JsNull, Bool(TRUE), Bool(FALSE), Infinite,
     Str(<<>>), Str(<<"f", "o", "o">>), Str(<<"6", "0", "0">>)}
    \cup {Num(n) : n \in {-1, 0, 1, 600, DefaultBreakThreshold, 3600,
                          LimitBreakThreshold, MaxThreshold}}

SourceValues == {Absent, GitRoot, Cwd, Str(<<"x">>), JsNull}

InitConfig ==
    /\ entries = <<>>
    /\ breakMs = 0
    /\ status = "config"
    /\ slices = <<>>
    /\ opts = NoOpts
    /\ filtered = <<>>
    /\ \E readable \in BOOLEAN, bt \in ThresholdValues,
          src \in SourceValues :
          LET user == [breakThreshold |-> bt, projectSource |-> src]
          IN  cli = [file |-> [readable |-> readable, user |-> user],
                     arg |-> user, config |-> user]
    /\ rollup = Idle /\ files = Idle /\ timelog = Idle

\* validateConfig(cfg), called on an object as the tests call it.
RunValidateConfig ==
    /\ status = "config"
    /\ LET v == validateConfig(cli.file.user)
       IN  cli' = [cli EXCEPT !.arg = v.arg, !.config = v.result]
    /\ status' = "validated"
    /\ UNCHANGED <<entries, breakMs, slices, opts, filtered, rollup, files,
                   timelog>>

\* The report: const config = loadConfig(); const breakMs = ...
RunLoadConfig ==
    /\ status = "config"
    /\ LET config == loadConfig(cli.file)
       IN  /\ cli' = [cli EXCEPT !.config = config]
           /\ breakMs' = breakMsOf(config)
    /\ status' = "loaded"
    /\ UNCHANGED <<entries, slices, opts, filtered, rollup, files, timelog>>

NextConfig == RunValidateConfig \/ RunLoadConfig

SpecConfig == InitConfig /\ [][NextConfig]_vars

----------------------------------------------------------------------------
(* C22: the break threshold (specification SpecConfig).                     *)

RefInRange(v) == v.t = "number" /\ v.f /\ v.n > 0 /\ v.n <= 86400

\* A number, or a string that spells one.
RefNumeric(v) ==
    \/ v.t = "number"
    \/ v.t = "string" /\ v.s # <<>> /\ \A i \in 1..Len(v.s) : IsDigit(v.s[i])

\* C22: after validateConfig, and after loadConfig, breakThreshold is a
\* finite number in (0, 86400]; a value in that range is kept; a negative,
\* zero, larger or non-numeric value is replaced by 1800; the report's
\* breakMs is positive; validateConfig leaves its argument as it was.
C22_BreakThresholdValidated ==
    status \in {"validated", "loaded"} =>
        LET given == cli.file.user.breakThreshold
            bt == cli.config.breakThreshold
        IN  /\ RefInRange(bt)
            /\ status = "validated" =>
                  /\ RefInRange(given) => bt = given
                  /\ (given # Absent /\ ~RefNumeric(given))
                        => bt = Num(1800)
                  /\ (given.t = "number" /\ ~RefInRange(given))
                        => bt = Num(1800)
                  /\ cli.arg = cli.file.user
            /\ status = "loaded" => breakMs > 0

----------------------------------------------------------------------------
(* processTranscript, record by record.  A record of a transcript is       *)
(* [type, timestamp, cwd, path, branch, text, isPrompt]: timestamp is NaN  *)
(* when the record has none; cwd, path and branch hold the project the     *)
(* cwd names, the project extractProjectFromPath finds in a tool call and  *)
(* the ticket matchTicket finds in gitBranch; text holds the ticket        *)
(* matchTicket finds in the prompt; isPrompt is isUserPrompt(rec) with a   *)
(* non-empty text.  An entry's ts is NaN when it has none.                  *)

MaxRecords == 3     \* records of a transcript
MaxRecTs == 1       \* record timestamps range over 0..MaxRecTs

Ban2 == Some(<<"B", "2">>)

Record(type, t, cwd, path, branch, text, isPrompt) ==
    [type |-> type, timestamp |-> t, cwd |-> cwd, path |-> path,
     branch |-> branch, text |-> text, isPrompt |-> isPrompt]

BackfillEntry(t, k, sid, p, tk) ==
    [ts |-> t, event |-> k, session |-> sid, project |-> p, ticket |-> tk,
     source |-> "backfill"]

\* The variables of processTranscript before the first line.
Scan0 ==
    [firstTs |-> NaN, lastTs |-> NaN, fallbackProject |-> None,
     currentProject |-> None, ticket |-> None, out |-> <<>>]

\* The body of the loop over the lines, for a line that parses.
ScanRecord(st, rec, sid) ==
    LET ts == rec.timestamp
        firstTs == IF ts # NaN /\ st.firstTs = NaN THEN ts ELSE st.firstTs
        lastTs == IF ts # NaN THEN ts ELSE st.lastTs
        fallback == IF ~Truthy(st.fallbackProject) /\ Truthy(rec.cwd)
                    THEN rec.cwd ELSE st.fallbackProject
        current == IF rec.type = "assistant" /\ Truthy(rec.path)
                   THEN rec.path ELSE st.currentProject
        branched == IF ~Truthy(st.ticket) /\ Truthy(rec.branch)
                    THEN rec.branch ELSE st.ticket
        entry == BackfillEntry(ts, Prompt, sid, OrElse(current, fallback),
                               branched)
    IN  [firstTs |-> firstTs, lastTs |-> lastTs,
         fallbackProject |-> fallback, currentProject |-> current,
         ticket |-> IF rec.isPrompt /\ ~Truthy(branched) THEN rec.text
                    ELSE branched,
         out |-> IF rec.isPrompt THEN Append(st.out, entry) ELSE st.out]

RECURSIVE ScanFrom(_, _, _, _)
ScanFrom(recs, i, st, sid) ==
    IF i > Len(recs) THEN st
    ELSE ScanFrom(recs, i + 1, ScanRecord(st, recs[i], sid), sid)

\* Mutant: the entries keep the ticket they were pushed with.
WriteBack_Skipped(st) == st.out

\* for (const e of entries): the final ticket on the entries pushed
\* without one, the project found in the tool calls on those pushed with
\* the cwd's.
WriteBack(st) ==
    [i \in 1..Len(st.out) |->
        [st.out[i] EXCEPT
            !.ticket = IF ~Truthy(@) /\ Truthy(st.ticket) THEN st.ticket
                       ELSE @,
            !.project = IF @ = st.fallbackProject
                           /\ Truthy(st.currentProject)
                        THEN st.currentProject ELSE @]]

processRecords(recs, sid) ==
    LET st == ScanFrom(recs, 1, Scan0, sid)
        project == OrElse(st.currentProject, st.fallbackProject)
    IN  IF st.firstTs = NaN THEN <<>>
        ELSE <<BackfillEntry(st.firstTs, "SessionStart", sid, project,
                             st.ticket)>>
             \o WriteBack(st)
             \o <<BackfillEntry(st.lastTs, "SessionEnd", sid, project,
                                st.ticket)>>

\* The records of a transcript: prompts with and without a ticket in their
\* text, a system-injected user record, an assistant record with a tool
\* call in another project on a ticket branch, a record on another branch,
\* a summary; each with a timestamp or without.
RecordKinds ==
    {<<"user", MyApp, None, None, None, TRUE>>,
     <<"user", None, None, None, Ban1, TRUE>>,
     <<"user", None, None, None, Ban2, TRUE>>,
     <<"user", None, None, None, None, FALSE>>,
     <<"assistant", None, OtherApp, Ban1, None, FALSE>>,
     <<"summary", None, None, Ban2, None, FALSE>>}

TranscriptRecords ==
    {Record(k[1], t, k[2], k[3], k[4], k[5], k[6]) :
        k \in RecordKinds, t \in {NaN} \cup 0..MaxRecTs}

InitTranscript ==
    /\ entries = <<>>
    /\ breakMs = BreakMs
    /\ status = "transcript"
    /\ slices = <<>>
    /\ opts = NoOpts
    /\ filtered = <<>>
    /\ files \in UNION {[1..n -> TranscriptRecords] : n \in 0..MaxRecords}
    /\ rollup = Idle /\ cli = Idle /\ timelog = Idle

\* const entries = await processTranscript(transcripts[i], config)
RunProcessTranscript ==
    /\ status = "transcript"
    /\ entries' = processRecords(files, "tA")
    /\ status' = "processed"
    /\ UNCHANGED <<breakMs, slices, opts, filtered, rollup, files, cli,
                   timelog>>

NextTranscript == RunProcessTranscript

SpecTranscript == InitTranscript /\ [][NextTranscript]_vars

----------------------------------------------------------------------------
(* C23, C29: processTranscript (specification SpecTranscript).              *)

RefTimestamped == \E i \in 1..Len(files) : files[i].timestamp # NaN

\* C23: the entries processTranscript returns are in non-decreasing
\* timestamp order, begin with one SessionStart, end with one SessionEnd,
\* hold only UserPromptSubmit entries in between and carry one session id;
\* a transcript without a timestamped record yields no entry.
C23_TranscriptEntriesOrdered ==
    status = "processed" =>
        /\ ~RefTimestamped => entries = <<>>
        /\ RefTimestamped =>
              /\ Len(entries) >= 2
              /\ entries[1].event = "SessionStart"
              /\ entries[Len(entries)].event = "SessionEnd"
              /\ \A i \in 2..(Len(entries) - 1) : entries[i].event = Prompt
              /\ \A i \in 1..Len(entries) : entries[i].session = "tA"
              /\ \A i \in 1..(Len(entries) - 1) :
                    /\ entries[i].ts # NaN /\ entries[i + 1].ts # NaN
                    /\ entries[i].ts <= entries[i + 1].ts

\* C29: all the entries processTranscript returns for a transcript carry
\* the same ticket, or none of them carries one: the first ticket found in
\* a branch name or a prompt is never replaced and is written onto the
\* entries pushed before it was found.
C29_OneTicketPerTranscript ==
    status = "processed" =>
        /\ \A i, j \in 1..Len(entries) : entries[i].ticket = entries[j].ticket
        /\ \A i \in 1..Len(entries) :
              entries[i].ticket.some =>
                  \E k \in 1..Len(files) :
                      /\ entries[i].ticket \in {files[k].branch, files[k].text}
                      /\ \A h \in 1..(k - 1) :
                            /\ ~files[h].branch.some
                            /\ files[h].isPrompt => ~files[h].text.some
                      /\ files[k].branch.some
                            => entries[i].ticket = files[k].branch

\* A prompt without a ticket, then a prompt that names one ticket, then a
\* record on the branch of another: the first ticket is on all four
\* entries.
C29_Witness ==
    /\ status = "processed"
    /\ Len(files) = MaxRecords
    /\ files[1].isPrompt /\ ~files[1].text.some /\ ~files[1].branch.some
    /\ files[2].isPrompt /\ files[2].text = Ban1
    /\ files[3].branch = Ban2
    /\ Len(entries) = 4
    /\ \A i \in 1..Len(entries) : entries[i].ticket = Ban1

----------------------------------------------------------------------------
(* The report's command line.  An argument is [flag, re, month, day]: a    *)
(* word that starts with '--' (flag is the word), or a value (flag is "")  *)
(* that matches DATE_RE or not and, when it does, has a month and a day    *)
(* field.  new Date(value + 'T00:00:00') is Invalid Date (NaN) when the    *)
(* month is outside 1..12 or the day outside 1..31; for a day past the end *)
(* of its month the engine either rolls over into the next month or gives  *)
(* Invalid Date.                                                            *)

MaxArgs == 3        \* command-line arguments

MonthsPerYear == 12
MaxDayOfMonth == 31
DaysInMonth == <<31, 28, 31, 30, 31, 30, 31, 31, 30, 31, 30, 31>>

FlagArg(f) == [flag |-> f, re |-> FALSE, month |-> 0, day |-> 0]
ValueArg(re, mo, d) == [flag |-> "", re |-> re, month |-> mo, day |-> d]

KNOWN_FLAGS ==
    {"--week", "--month", "--by-project", "--by-ticket", "--by-model",
     "--by-day", "--timesheet", "--from", "--to", "--project", "--ticket",
     "--json", "--help"}

ValueFlags == {"--from", "--to", "--project", "--ticket"}

Undefined == ValueArg(FALSE, -1, -1)

\* DATE_RE.test(v)
DATE_RE(v) == v.flag = "" /\ v.re

\* The days of the year before month mo.
RECURSIVE DaysBefore(_)
DaysBefore(mo) == IF mo <= 1 THEN 0 ELSE DaysBefore(mo - 1) + DaysInMonth[mo - 1]

\* new Date(v + 'T00:00:00'): the day of the year, or NaN.
NewDate(v, rolls) ==
    IF /\ v.month \in 1..MonthsPerYear
       /\ v.day \in 1..MaxDayOfMonth
       /\ (v.day <= DaysInMonth[v.month] \/ rolls)
    THEN DaysBefore(v.month) + v.day
    ELSE NaN

\* for (let i = 0; i < args.length; i++): flagArgs[args[i]] = args[++i]
RECURSIVE flagArgsFrom(_, _, _)
flagArgsFrom(args, i, acc) ==
    IF i > Len(args) THEN acc
    ELSE IF args[i].flag \in ValueFlags
    THEN flagArgsFrom(args, i + 2,
            [acc EXCEPT ![args[i].flag] =
                IF i + 1 <= Len(args) THEN args[i + 1] ELSE Undefined])
    ELSE flagArgsFrom(args, i + 1, acc)

flagArgs(args) == flagArgsFrom(args, 1, [f \in ValueFlags |-> Undefined])

\* flagArgs[key] is truthy: a non-empty string.
Given(v) == v # Undefined

\* flagArgs[key] && !DATE_RE.test(flagArgs[key]), for --from or --to.
BadDate(fa) == \E key \in {"--from", "--to"} : Given(fa[key]) /\ ~DATE_RE(fa[key])

Exited(code, err) ==
    [exit |-> code, stderr |-> err, threw |-> FALSE, read |-> FALSE]

\* The report from its first line to the first use of the log directory:
\* in getLogFiles, or in the 'No timelog data' message, dateKey(startDate)
\* and dateKey(endDate) call toISOString, which throws RangeError on an
\* Invalid Date.
parseArgs(args, rolls) ==
    LET flags == {args[i].flag : i \in 1..Len(args)} \ {""}
        fa == flagArgs(args)
        from == IF Given(fa["--from"]) THEN NewDate(fa["--from"], rolls)
                     ELSE 0
        to == IF Given(fa["--to"]) THEN NewDate(fa["--to"], rolls)
                   ELSE 0
    IN  IF "--help" \in flags THEN Exited(0, "")
        ELSE IF flags \ KNOWN_FLAGS # {} THEN Exited(2, "Unknown flag")
        ELSE IF BadDate(fa) THEN Exited(2, "Invalid date")
        ELSE IF from = NaN \/ to = NaN
        THEN [exit |-> 1, stderr |-> "RangeError: Invalid time value",
              threw |-> TRUE, read |-> FALSE]
        ELSE [exit |-> 0, stderr |-> "", threw |-> FALSE, read |-> TRUE]

ArgFlags == {"--help", "--json", "--verbose", "--from", "--to"}
ArgMonths == {2, MonthsPerYear + 1}
ArgDays == {1, 30, MaxDayOfMonth + 1}

Args ==
    {FlagArg(f) : f \in ArgFlags}
    \cup {ValueArg(FALSE, 0, 0)}
    \cup {ValueArg(TRUE, mo, d) : mo \in ArgMonths, d \in ArgDays}

InitArgs ==
    /\ entries = <<>>
    /\ breakMs = BreakMs
    /\ status = "args"
    /\ slices = <<>>
    /\ opts = NoOpts
    /\ filtered = <<>>
    /\ files = Idle /\ rollup = Idle /\ timelog = Idle
    /\ \E args \in UNION {[1..n -> Args] : n \in 0..MaxArgs},
          rolls \in BOOLEAN :
          cli = [args |-> args, rolls |-> rolls, out |-> Exited(0, "")]

\* node scripts/report.mjs ...args
RunParseArgs ==
    /\ status = "args"
    /\ status' = "argsParsed"
    /\ cli' = [cli EXCEPT !.out = parseArgs(cli.args, cli.rolls)]
    /\ UNCHANGED <<entries, breakMs, slices, opts, filtered, rollup, files,
                   timelog>>

NextArgs == RunParseArgs

SpecArgs == InitArgs /\ [][NextArgs]_vars

----------------------------------------------------------------------------
(* C24: the report's arguments (specification SpecArgs).                    *)

RefFlags == {cli.args[i].flag : i \in 1..Len(cli.args)} \ {""}

\* A value that is a date of the calendar, written YYYY-MM-DD.
RefValidDate(v) ==
    /\ v.flag = "" /\ v.re
    /\ v.month \in 1..MonthsPerYear
    /\ v.day \in 1..DaysInMonth[v.month]

\* --from or --to is followed by a value that is not a valid date.
RefBadDateArg ==
    \E i \in 1..(Len(cli.args) - 1) :
        /\ cli.args[i].flag \in {"--from", "--to"}
        /\ ~RefValidDate(cli.args[i + 1])

\* C24: without --help, an unknown '--' flag or a --from/--to value that
\* is not a valid YYYY-MM-DD date makes the report print an error and exit
\* with status 2 before it reads a log file, and no argument makes it end
\* with an uncaught exception.
C24_BadArgumentsRejected ==
    (status = "argsParsed" /\ "--help" \notin RefFlags) =>
        /\ ~cli.out.threw
        /\ (RefFlags \ KNOWN_FLAGS # {} \/ RefBadDateArg) =>
              /\ cli.out.exit = 2
              /\ cli.out.stderr # ""
              /\ ~cli.out.read

----------------------------------------------------------------------------
(* C25: prompts are conserved (specification SpecOrder).                    *)

RefPromptEvents(sid) == Len(SelectSeq(RefEvents(sid), RefIsPrompt))

\* C25: for every session, buildSlices returns as many slices with
\* isPrompt as the session has UserPromptSubmit events, whatever the gaps
\* around them, and the prompts of the project rollup add up to the number
\* of logged prompts.
C25_PromptConservation ==
    status = "sliced" =>
        /\ \A sid \in RefSessions : RefPrompts(Out(sid)) = RefPromptEvents(sid)
        /\ LET groups == aggregate(slices, "projectOrUnknown")
           IN  SumSeq([i \in 1..Len(groups) |-> groups[i].prompts])
                  = Len(SelectSeq(entries,
                        LAMBDA e : e.session # NoSession /\ RefIsPrompt(e)))

\* Four prompts of a session: a zero gap, an active gap and a break follow
\* the first three, nothing follows the last.
C25_Witness ==
    /\ status = "sliced"
    /\ \E sid \in RefSessions :
          LET ev == RefSorted(sid)
          IN  /\ Len(ev) = 4
              /\ \A i \in 1..4 : RefIsPrompt(ev[i])
              /\ RefGap(ev, 1) = 0
              /\ RefGap(ev, 2) > 0 /\ RefGap(ev, 2) < breakMs
              /\ RefGap(ev, 3) >= breakMs
              /\ RefPrompts(Out(sid)) = 4

----------------------------------------------------------------------------
(* The same log read in another order.                                      *)

\* One session whose events may share a timestamp and differ in project
\* and ticket, so that the order of a tie shows in the attribution.
PermutedEvents ==
    {Event("sA", t, k, c.project, c.ticket, ModelOf(k)) :
        t \in 0..BreakMs, k \in {"SessionStart", Prompt}, c \in Contexts}

ReadPermutedEvent == \E e \in PermutedEvents : ReadEntry(e, MaxEntries)

NextPermuted == ReadPermutedEvent \/ RunBuildSlices

SpecPermuted == Init /\ [][NextPermuted]_vars

----------------------------------------------------------------------------
(* C28: the order of the input (specification SpecPermuted).                *)

\* The entries in the order p.
RefPermuted(p) == [i \in 1..Len(entries) |-> entries[p[i]]]

\* The slices of session sid when the entries are read in the order p.
RefOutOf(p, sid) ==
    SelectSeq(buildSlices(RefPermuted(p), breakMs).out,
              LAMBDA s : s.session = sid)

RefDistinctTimes(sid) ==
    LET ev == RefEvents(sid)
    IN  \A i, j \in 1..Len(ev) : i # j => ev[i].ts # ev[j].ts

\* C28: for every permutation of the entries, each session's active
\* seconds and prompt count are those of the original order, also when
\* events of the session share a timestamp; when the timestamps of a
\* session are all distinct, its sequence of slices is the same too.
C28_OrderIndependence ==
    status = "sliced" =>
        \A p \in Permutations(1..Len(entries)) :
            \A sid \in RefSessions :
                /\ SumSeconds(RefOutOf(p, sid)) = SumSeconds(Out(sid))
                /\ RefPrompts(RefOutOf(p, sid)) = RefPrompts(Out(sid))
                /\ RefDistinctTimes(sid) => RefOutOf(p, sid) = Out(sid)

\* Two events at one instant with different projects, then a third within
\* the threshold: another order of the input gives other slices with the
\* same totals.
C28_Witness ==
    /\ status = "sliced"
    /\ Len(entries) = MaxEntries
    /\ SumSeconds(Out("sA")) > 0
    /\ RefPrompts(Out("sA")) > 0
    /\ ~RefDistinctTimes("sA")
    /\ \E p \in Permutations(1..Len(entries)) :
          /\ RefOutOf(p, "sA") # Out("sA")
          /\ SumSeconds(RefOutOf(p, "sA")) = SumSeconds(Out("sA"))

----------------------------------------------------------------------------
(* The hook appends while backfill runs.  The hook is another process: its *)
(* appendFileSync can fall between any two file operations of backfill's   *)
(* main, in particular between the readFileSync and the writeFileSync of a *)
(* day file.  The session the hook logs is the one transcript tA records.  *)

\* The k-th entry the hook appends: the SessionStart of session tA, then
\* its prompts; the first prompt is the one in the transcript.
HookEntry(k) ==
    IF k = 1
    THEN LogEntry(Today * MsPerDay, "SessionStart", "tA", None, "startup")
    ELSE LogEntry(Today * MsPerDay + k - 1, Prompt, "tA", None, "")

InitRace ==
    /\ entries = <<>>
    /\ breakMs = BreakMs
    /\ status = "race"
    /\ slices = <<>>
    /\ opts = NoOpts
    /\ filtered = <<>>
    /\ \E present \in SUBSET Transcripts :
          timelog = [dir |-> [d \in BackfillDays |-> NoFile],
                     present |-> present, pc |-> "idle", dates |-> <<>>,
                     snap |-> NoFile, hooked |-> 0]
    /\ rollup = Idle /\ files = Idle /\ cli = Idle

\* appendFileSync(logFile, JSON.stringify(entry) + '\n')
LiveHookAppend ==
    /\ status = "race"
    /\ timelog.hooked < MaxLive
    /\ LET file == timelog.dir[Today]
           e == HookEntry(timelog.hooked + 1)
       IN  timelog' = [timelog EXCEPT
                          !.hooked = @ + 1,
                          !.dir[Today] =
                              [exists |-> TRUE,
                               lines |-> Append(file.lines, JsonLine(e))]]
    /\ UNCHANGED <<entries, breakMs, status, slices, opts, filtered,
                   rollup, files, cli>>

\* The dates of byDate, then those of the files of the directory.
RECURSIVE DatesFrom(_, _)
DatesFrom(t, d) ==
    IF d \notin BackfillDays THEN <<>>
    ELSE (IF byDate(t.present, "default", d) # <<>> \/ t.dir[d].exists
          THEN <<d>> ELSE <<>>)
         \o DatesFrom(t, d + 1)

\* main, to the end of readdirSync: the transcripts are processed and
\* allDates is fixed.
RaceScan ==
    /\ status = "race"
    /\ timelog.pc = "idle"
    /\ LET dates == DatesFrom(timelog, 0)
       IN  timelog' = [timelog EXCEPT
                          !.dates = dates,
                          !.pc = IF dates = <<>> THEN "done" ELSE "read"]
    /\ UNCHANGED <<entries, breakMs, status, slices, opts, filtered,
                   rollup, files, cli>>

\* if (existsSync(path)) raw = readFileSync(path, 'utf8')
RaceRead ==
    /\ status = "race"
    /\ timelog.pc = "read"
    /\ timelog' = [timelog EXCEPT
                      !.snap = timelog.dir[Head(timelog.dates)],
                      !.pc = "write"]
    /\ UNCHANGED <<entries, breakMs, status, slices, opts, filtered,
                   rollup, files, cli>>

\* The merge of what was read with the backfill entries, and
\* writeFileSync(path, lines + '\n') unless the merge is empty.
RaceWrite ==
    /\ status = "race"
    /\ timelog.pc = "write"
    /\ LET d == Head(timelog.dates)
           backfill == byDate(timelog.present, "default", d)
           written == mergeDay(timelog.snap, backfill)
           rest == Tail(timelog.dates)
       IN  timelog' = [timelog EXCEPT
                          !.dir[d] = IF kept(timelog.snap) \o backfill = <<>>
                                     THEN @ ELSE written,
                          !.dates = rest,
                          !.pc = IF rest = <<>> THEN "done" ELSE "read"]
    /\ UNCHANGED <<entries, breakMs, status, slices, opts, filtered,
                   rollup, files, cli>>

NextRace == LiveHookAppend \/ RaceScan \/ RaceRead \/ RaceWrite

SpecBackfillRace == InitRace /\ [][NextRace]_vars

----------------------------------------------------------------------------
(* C26, C27: the hook and backfill on one session (specification           *)
(* SpecBackfillRace).                                                       *)

RefLogged(d) ==
    LET ls == SelectSeq(timelog.dir[d].lines, LAMBDA l : l.kind = "json")
    IN  [i \in 1..Len(ls) |-> ls[i].json[1]]

\* C26: once backfill has finished, every entry the hook appended is in
\* the day's file, also an entry appended between backfill's read of the
\* file and its write.
C26_NoLiveEntryLost ==
    timelog.pc = "done" =>
        \A k \in 1..timelog.hooked :
            \E i \in 1..Len(RefLogged(Today)) :
                RefLogged(Today)[i] = HookEntry(k)

RefPromptsLogged(sid) ==
    SumSeq([d \in 1..Cardinality(BackfillDays) |->
               Len(SelectSeq(RefLogged(d - 1),
                             LAMBDA e : e.session = sid /\ e.event = Prompt))])

\* C27: when the hook has logged a session and backfill has run over its
\* transcript, the log holds no more UserPromptSubmit entries of the
\* session than prompts were submitted in it.
C27_PromptLoggedOnce ==
    (timelog.pc = "done" /\ timelog.hooked >= 2) =>
        RefPromptsLogged("tA") <= timelog.hooked - 1

----------------------------------------------------------------------------
(* The views of the report.  The output is the list of its tables (text)   *)
(* or of the keys of the JSON object with their values, in the order they  *)
(* are printed or assigned.                                                 *)

ViewFlags ==
    {"--by-project", "--by-ticket", "--by-model", "--by-day", "--timesheet"}

\* One entry of the output when the condition holds, none otherwise.
Section(cond, name, rows) ==
    IF cond THEN <<[name |-> name, rows |-> rows]>> ELSE <<>>

showDefault(flags) == flags \cap ViewFlags = {}

\* if (format === 'json') { const data = {}; ... }
JsonViews(flags, ss) ==
    Section("--by-project" \in flags \/ showDefault(flags), "byProject",
            aggregate(ss, "projectOrUnknown"))
    \o Section("--by-ticket" \in flags, "byTicket",
               aggregate(ss, "ticketOrNoTicket"))
    \o Section("--by-model" \in flags, "byModel",
               aggregate(ss, "modelOrUnknown"))
    \o Section("--by-day" \in flags, "byDay", aggregate(ss, "date"))

\* The tables after the 'Total:' line.
TextViews(flags, ss) ==
    Section("--timesheet" \in flags, "Timesheet", buildTimesheet(ss))
    \o Section(showDefault(flags), "DayProject", buildDayProjectTicket(ss))
    \o Section("--by-project" \in flags, "Project",
               aggregate(ss, "projectOrUnknown"))
    \o Section("--by-ticket" \in flags, "Ticket",
               aggregate(ss, "ticketOrNoTicket"))
    \o Section("--by-model" \in flags, "Model",
               aggregate(ss, "modelOrUnknown"))
    \o Section("--by-day" \in flags, "Day", aggregate(ss, "date"))

InitViews ==
    /\ entries = <<>>
    /\ breakMs = BreakMs
    /\ status = "views"
    /\ slices \in {<<>>} \cup {<<s>> : s \in RollupInputs}
    /\ opts = NoOpts
    /\ filtered = <<>>
    /\ \E flags \in SUBSET (ViewFlags \cup {"--json"}) :
          cli = [flags |-> flags, format |-> "", views |-> <<>>]
    /\ rollup = Idle /\ files = Idle /\ timelog = Idle

\* The report from the parsed flags to its output, over the slices of the
\* period.
RunViews ==
    /\ status = "views"
    /\ status' = "exited"
    /\ filtered' = filterSlices(slices, opts)
    /\ cli' = IF "--json" \in cli.flags
              THEN [cli EXCEPT !.format = "json",
                               !.views = JsonViews(cli.flags, filtered')]
              ELSE [cli EXCEPT !.format = "text",
                               !.views = TextViews(cli.flags, filtered')]
    /\ UNCHANGED <<entries, breakMs, slices, opts, rollup, files, timelog>>

NextViews == RunViews

SpecViews == InitViews /\ [][NextViews]_vars

----------------------------------------------------------------------------
(* C30: the requested views (specification SpecViews).                      *)

RefViewNames == {cli.views[i].name : i \in 1..Len(cli.views)}

\* The table and the JSON key of a view flag.
RefViewOf(flag) ==
    CASE flag = "--by-project" -> [text |-> "Project", json |-> "byProject"]
      [] flag = "--by-ticket" -> [text |-> "Ticket", json |-> "byTicket"]
      [] flag = "--by-model" -> [text |-> "Model", json |-> "byModel"]
      [] flag = "--by-day" -> [text |-> "Day", json |-> "byDay"]
      [] OTHER -> [text |-> "Timesheet", json |-> "timesheet"]

\* C30: every view flag that is given has its table in the text output and
\* its section in the JSON output, so the JSON object is not empty when a
\* view was requested.
C30_RequestedViewsPresent ==
    status = "exited" =>
        /\ \A flag \in cli.flags \cap ViewFlags :
              IF cli.format = "json"
              THEN RefViewOf(flag).json \in RefViewNames
              ELSE RefViewOf(flag).text \in RefViewNames
        /\ (cli.format = "json" /\ cli.flags \cap ViewFlags # {})
              => cli.views # <<>>

====
